---- MODULE Spec2Model ----
(***************************************************************************)
(* Nucleation detection subsystem of aphoticshaman/nucleation-wasm:        *)
(*   nucleation-paper/src/evaluation/harness.py         (harness)          *)
(*   nucleation-paper/src/detectors/nucleation_detectors.py (detectors)    *)
(*   nucleation-paper/src/simulators/phase_transitions.py   (simulators)   *)
(*                                                                         *)
(* Conventions.  Python None for an index is the sentinel None (-1); all   *)
(* indices of the program are >= 0.  Arrays are 1-based sequences here, so *)
(* Python index i is position i + 1.  Floating point values are modelled   *)
(* as exact rationals (numerator / denominator pairs, or integers scaled   *)
(* by a stated factor) where the computation stays rational, and as fixed  *)
(* point numbers in units of 1 / Scale, rounded down, where it takes       *)
(* square roots.                                                           *)
(***************************************************************************)
EXTENDS Integers, Sequences, FiniteSets, TLC

VARIABLES
    \* ---- EvaluationHarness.run_experiment (two runs, same corpus) ----
    detection_tolerance, \* run -> config.detection_tolerance
    metrics,             \* run -> detector type -> counters
    sim_i,               \* loop index i of "for i, sim in enumerate(dataset)"
    sim,                 \* dataset[i], the simulation being evaluated
    det_k,               \* number of detectors already evaluated on sim
    sim_result,          \* run -> detector type -> detailed record of sim
    \* ---- EnsembleDetector.detect ----
    ens_threshold,       \* self.threshold of the EnsembleDetector
    ens_results,         \* results = [d.detect(signal) for d in self.detectors]
    ens_out,             \* the DetectionResult detect returned
    \* ---- find_transition_index ----
    fti_state,           \* the state array passed in
    fti_edges,           \* exclude_edges, in tenths
    fti_out,             \* the index returned (NotCalled before the call)
    \* ---- simulate / generate_dataset ----
    rng,                 \* the state of numpy's global random generator
    sim_config,          \* the SimulationConfig under test
    sim_calls,           \* how many times simulate(sim_config) has run
    sim_first,           \* what the first call returned
    sim_last,            \* what the latest call returned
    gd_args,             \* generate_dataset: seed and per-run transition_types
    gd_out,              \* run -> the list generate_dataset returned
    \* ---- detect(signal) on one detector instance ----
    det_detector,        \* the detector instance: its type and parameters
    det_signal,          \* the signal passed to detect
    det_out,             \* what detect returned (NoCall before the call)
    \* ---- one call of a function that keeps no state of its own ----
    call_args,           \* the arguments of the call
    call_out             \* what the call returned or raised (NoCall before)

hvars == <<detection_tolerance, metrics, sim_i, sim, det_k, sim_result>>
evars == <<ens_threshold, ens_results, ens_out>>

fvars == <<fti_state, fti_edges, fti_out>>

svars == <<rng, sim_config, sim_calls, sim_first, sim_last, gd_args, gd_out>>

dvars == <<det_detector, det_signal, det_out>>

cvars == <<call_args, call_out>>

vars == <<hvars, evars, fvars, svars, dvars, cvars>>

\* what the actions of one subsystem leave alone
not_hvars == <<evars, fvars, svars, dvars, cvars>>
not_evars == <<hvars, fvars, svars, dvars, cvars>>
not_fvars == <<hvars, evars, svars, dvars, cvars>>
not_svars == <<hvars, evars, fvars, dvars, cvars>>
not_dvars == <<hvars, evars, fvars, svars, cvars>>
not_cvars == <<hvars, evars, fvars, svars, dvars>>

None == -1

Abs(x) == IF x < 0 THEN -x ELSE x

\* A subsystem that a specification does not exercise stays in its idle state.
EnsembleIdle ==
    /\ ens_threshold = [num |-> 0, den |-> 1]
    /\ ens_results = <<>>
    /\ ens_out = [detected |-> FALSE, detection_index |-> None]

\* find_transition_index has not been called, or has raised
NotCalled == -3
Raised == -2

FindTransitionIdle ==
    /\ fti_state = <<>>
    /\ fti_edges = 1
    /\ fti_out = NotCalled

NoCall == [called |-> FALSE]

DetectorIdle ==
    /\ det_detector = [type |-> "variance_ratio"]
    /\ det_signal = <<>>
    /\ det_out = NoCall

CallIdle ==
    /\ call_args = <<>>
    /\ call_out = NoCall

NoResult == [result |-> [transition_index |-> NotCalled], ambient |-> 0]

SimulatorIdle ==
    /\ rng = 0
    /\ sim_config = [transition_type |-> "pitchfork"]
    /\ sim_calls = 0
    /\ sim_first = NoResult
    /\ sim_last = NoResult
    /\ gd_args = [seed |-> None]
    /\ gd_out = <<>>

(***************************************************************************)
(* Bounds of the harness model.                                            *)
(***************************************************************************)
MaxSims == 2        \* config.n_simulations
MaxIndex == 2       \* largest signal index a detector or simulator reports
MaxTol == 2         \* largest detection_tolerance

Runs == {1, 2}

\* config.detector_types of the modelled experiment, in dict order
DetectorTypes == <<"variance_ratio", "ensemble">>

TransitionTypes == {"pitchfork", "nucleation"}

\* What evaluate_single can hand back: DetectionResult.detected and
\* DetectionResult.detection_index (Optional[int]).
DetectionResults ==
    [detected : BOOLEAN, detection_index : {None} \cup (0 .. MaxIndex)]

Simulations ==
    [transition_type : TransitionTypes, transition_index : 0 .. MaxIndex]

\* harness.py:27-34 and 183-184: fresh counters for every detector type
EvaluationMetricsCarriedOver ==
    [true_positives |-> 0, false_positives |-> 0,
     false_negatives |-> 1, true_negatives |-> 0]

EvaluationMetrics ==
    [true_positives |-> 0, false_positives |-> 0,
     false_negatives |-> 0, true_negatives |-> 0]

NoRecord == [detected |-> FALSE, index |-> None, has_error |-> FALSE, error |-> 0]

\* harness.py:226
WithinToleranceInverted(error, tolerance) == Abs(error) >= tolerance

WithinTolerance(error, tolerance) == Abs(error) <= tolerance

\* harness.py:224
Fired(detection) ==
    detection.detected /\ detection.detection_index # None

\* harness.py:224-240, the counter updates of one (simulation, detector) pair
UpdateMetricsLax(m, detection, s, tolerance) ==
    IF Fired(detection)
    THEN IF Abs(detection.detection_index - s.transition_index) < tolerance
         THEN [m EXCEPT !.true_positives = @ + 1]
         ELSE [m EXCEPT !.false_positives = @ + 1]
    ELSE [m EXCEPT !.false_negatives = @ + 1]

UpdateMetrics(m, detection, s, tolerance) ==
    IF Fired(detection)
    THEN IF WithinTolerance(detection.detection_index - s.transition_index, tolerance)
         THEN [m EXCEPT !.true_positives = @ + 1]
         ELSE [m EXCEPT !.false_positives = @ + 1]
    ELSE [m EXCEPT !.false_negatives = @ + 1]

\* harness.py:242-248, the detailed record; Python's truthiness test
\* "if detection.detection_index" is false for None and for index 0.
DetailedRecord(detection, s) ==
    [detected |-> detection.detected,
     index |-> detection.detection_index,
     has_error |-> detection.detection_index # None /\ detection.detection_index # 0,
     error |-> IF detection.detection_index # None /\ detection.detection_index # 0
               THEN detection.detection_index - s.transition_index ELSE 0]

HarnessInit ==
    /\ detection_tolerance \in [Runs -> 0 .. MaxTol]
    /\ metrics = [r \in Runs |-> [d \in 1 .. Len(DetectorTypes) |-> EvaluationMetrics]]
    /\ sim_i = 0
    /\ sim \in Simulations
    /\ det_k = 0
    /\ sim_result = [r \in Runs |-> [d \in 1 .. Len(DetectorTypes) |-> NoRecord]]

\* harness.py:219-248: the body of "for dtype, detector in self.detectors.items()"
\* for the next detector, in both runs; detect() is a function of the signal,
\* so both runs see the same DetectionResult.
EvaluatePair ==
    /\ sim_i < MaxSims
    /\ det_k < Len(DetectorTypes)
    /\ \E detection \in DetectionResults :
          /\ metrics' = [r \in Runs |->
                [metrics[r] EXCEPT ![det_k + 1] =
                    UpdateMetrics(@, detection, sim, detection_tolerance[r])]]
          /\ sim_result' = [r \in Runs |->
                [sim_result[r] EXCEPT ![det_k + 1] = DetailedRecord(detection, sim)]]
    /\ det_k' = det_k + 1
    /\ UNCHANGED <<detection_tolerance, sim_i, sim>>
    /\ UNCHANGED not_hvars

\* harness.py:206-217, 250: detailed_results.append(sim_result), next simulation
NextSimulation ==
    /\ sim_i < MaxSims
    /\ det_k = Len(DetectorTypes)
    /\ sim_i' = sim_i + 1
    /\ sim' \in Simulations
    /\ det_k' = 0
    /\ sim_result' = [r \in Runs |-> [d \in 1 .. Len(DetectorTypes) |-> NoRecord]]
    /\ UNCHANGED <<detection_tolerance, metrics>>
    /\ UNCHANGED not_hvars

HarnessNext == EvaluatePair \/ NextSimulation

InitHarness ==
    HarnessInit /\ EnsembleIdle /\ FindTransitionIdle /\ SimulatorIdle /\ DetectorIdle /\ CallIdle

SpecHarness == InitHarness /\ [][HarnessNext]_vars


(***************************************************************************)
(* Claims about the harness.                                               *)
(***************************************************************************)
PairFired(rec) == rec.detected /\ rec.index # None

PairDistance(rec) == Abs(rec.index - sim.transition_index)

\* C1: every evaluated (simulation, detector) pair increments exactly one
\* counter of that detector by one: true_positives iff the detector fired
\* (detected with a non-null index) within the tolerance of the true
\* transition index, false_positives iff it fired outside the tolerance,
\* false_negatives iff it did not fire; nothing else changes.
C1_ExactlyOneCounter ==
    [][det_k' = det_k + 1 =>
        \A r \in Runs :
            LET d == det_k + 1
                rec == sim_result'[r][d]
                m == metrics[r][d]
                n == metrics'[r][d]
                tol == detection_tolerance[r]
            IN  /\ (n.true_positives = m.true_positives + 1)
                       <=> (PairFired(rec) /\ PairDistance(rec) <= tol)
                /\ (n.false_positives = m.false_positives + 1)
                       <=> (PairFired(rec) /\ PairDistance(rec) > tol)
                /\ (n.false_negatives = m.false_negatives + 1)
                       <=> ~PairFired(rec)
                /\ n.true_positives \in {m.true_positives, m.true_positives + 1}
                /\ n.false_positives \in {m.false_positives, m.false_positives + 1}
                /\ n.false_negatives \in {m.false_negatives, m.false_negatives + 1}
                /\ n.true_negatives = m.true_negatives
                /\ n.true_positives + n.false_positives + n.false_negatives
                     = m.true_positives + m.false_positives + m.false_negatives + 1
                /\ \A e \in 1 .. Len(DetectorTypes) :
                       e # d => metrics'[r][e] = metrics[r][e]
    ]_vars

\* C1 witness: one detector has counted a true positive and a false
\* positive, the other a false negative.
C1_Witness ==
    /\ metrics[1][1].true_positives = 1
    /\ metrics[1][1].false_positives = 1
    /\ metrics[1][2].false_negatives >= 1

\* C2: with tolerance T2 >= T1 on the same corpus and detector, the second
\* run has at least as many true positives, at most as many false
\* positives, the same false negatives and the same number of firings, and
\* every pair counted as a true positive at T1 is a true positive at T2.
C2_MonotoneTolerance ==
    /\ [](detection_tolerance[2] >= detection_tolerance[1] =>
            \A d \in 1 .. Len(DetectorTypes) :
                /\ metrics[2][d].true_positives >= metrics[1][d].true_positives
                /\ metrics[2][d].false_positives <= metrics[1][d].false_positives
                /\ metrics[2][d].false_negatives = metrics[1][d].false_negatives
                /\ metrics[2][d].true_positives + metrics[2][d].false_positives
                     = metrics[1][d].true_positives + metrics[1][d].false_positives)
    /\ [][(detection_tolerance[2] >= detection_tolerance[1] /\ det_k' = det_k + 1) =>
            LET d == det_k + 1
            IN  (metrics'[1][d].true_positives = metrics[1][d].true_positives + 1)
                  => (metrics'[2][d].true_positives = metrics[2][d].true_positives + 1)
       ]_vars

\* C2 witness: the wider tolerance turned a false positive into a true positive.
C2_Witness ==
    /\ detection_tolerance[2] > detection_tolerance[1]
    /\ \E d \in 1 .. Len(DetectorTypes) :
          /\ metrics[2][d].true_positives > metrics[1][d].true_positives
          /\ metrics[2][d].false_positives < metrics[1][d].false_positives
          /\ metrics[1][d].true_positives >= 1

\* the simulations the loop has processed for detector d so far
Processed(d) == sim_i + (IF d <= det_k THEN 1 ELSE 0)

\* C13: at every point of a run, a detector for which k simulations have
\* been processed has true_negatives = 0 and true_positives +
\* false_positives + false_negatives = k; at the end of the run k is the
\* corpus size.
C13_CountersSumToProcessed ==
    \A r \in Runs : \A d \in 1 .. Len(DetectorTypes) :
        LET m == metrics[r][d]
        IN  /\ m.true_negatives = 0
            /\ m.true_positives + m.false_positives + m.false_negatives
                  = Processed(d)
            /\ sim_i = MaxSims => Processed(d) = MaxSims

\* C13 witness: the run is over, and a detector has counted a true
\* positive and a miss.
C13_Witness ==
    /\ sim_i = MaxSims
    /\ metrics[1][1].true_positives >= 1
    /\ metrics[1][1].false_negatives >= 1
    /\ metrics[1][1].true_positives + metrics[1][1].false_positives
          + metrics[1][1].false_negatives = MaxSims

\* C28: in every detailed per-simulation record of the harness, the
\* "error" entry of a detector is null iff its "index" entry is null, and
\* whenever the detector reported an index (index 0 included) the entry
\* is index - true_transition_index.
C28_ErrorIffIndex ==
    \A r \in Runs : \A d \in 1 .. det_k :
        LET rec == sim_result[r][d]
        IN  /\ rec.has_error <=> rec.index # None
            /\ rec.index # None => rec.error = rec.index - sim.transition_index

(***************************************************************************)
(* EnsembleDetector.detect (nucleation_detectors.py:572-691).              *)
(* The threshold is the rational num / den.  Weights are the program's     *)
(* weights times WeightScale, so that 1.5, 1.2, ... are integers.  A       *)
(* confidence c stands for c / ConfDen.                                    *)
(***************************************************************************)
MaxVoteIndex == 1      \* largest detection_index a sub-detector reports
ThresholdDen == 5      \* thresholds are multiples of 1 / ThresholdDen
MaxThresholdNum == 6   \* largest threshold numerator
ConfDen == 100         \* confidences are multiples of 1 / ConfDen

\* self.detectors, in list order (nucleation_detectors.py:587-594)
SubDetectorTypes ==
    <<"variance_ratio", "variance_derivative", "variance_inflection",
      "rolling_zscore", "cusum", "change_point">>

NumDetectors == Len(SubDetectorTypes)

WeightScale == 10

\* self.weights (nucleation_detectors.py:597-604), times WeightScale
Weights ==
    [variance_ratio |-> 15, variance_derivative |-> 12,
     variance_inflection |-> 10, rolling_zscore |-> 8,
     cusum |-> 10, change_point |-> 13]

\* The outcomes of one sub-detector: not detected; detected with an index
\* and a positive confidence; detected without an index (a result no base
\* detector builds, which the voting test still screens out).
SubResults ==
    {[detected |-> FALSE, detection_index |-> None, confidence |-> 0],
     [detected |-> TRUE, detection_index |-> None, confidence |-> ConfDen]}
    \cup [detected : {TRUE}, detection_index : 0 .. MaxVoteIndex,
          confidence : {ConfDen \div 2, ConfDen}]

EnsembleThresholds == [num : 1 .. MaxThresholdNum, den : {ThresholdDen}]

\* nucleation_detectors.py:611-620: the votes, in detector order
RECURSIVE Detections(_, _)
Detections(results, k) ==
    IF k > Len(results) THEN <<>>
    ELSE LET r == results[k]
         IN  IF r.detected /\ r.detection_index # None
             THEN <<[type |-> SubDetectorTypes[k], index |-> r.detection_index,
                     confidence |-> r.confidence,
                     weight |-> Weights[SubDetectorTypes[k]]]>>
                  \o Detections(results, k + 1)
             ELSE Detections(results, k + 1)

\* nucleation_detectors.py:647: np.argsort(indices); on at most six
\* elements numpy sorts by insertion, which keeps equal indices in order.
RECURSIVE InsertByIndex(_, _)
InsertByIndex(sorted, d) ==
    IF sorted = <<>> THEN <<d>>
    ELSE IF sorted[Len(sorted)].index <= d.index THEN Append(sorted, d)
    ELSE Append(InsertByIndex(SubSeq(sorted, 1, Len(sorted) - 1), d),
                sorted[Len(sorted)])

RECURSIVE SortByIndex(_)
SortByIndex(ds) ==
    IF ds = <<>> THEN <<>>
    ELSE InsertByIndex(SortByIndex(SubSeq(ds, 1, Len(ds) - 1)), ds[Len(ds)])

RECURSIVE SumWeights(_, _)
SumWeights(ds, k) ==
    IF k = 0 THEN 0 ELSE ds[k].weight + SumWeights(ds, k - 1)

RECURSIVE SumConfWeights(_, _)
SumConfWeights(ds, k) ==
    IF k = 0 THEN 0 ELSE ds[k].confidence * ds[k].weight + SumConfWeights(ds, k - 1)

\* nucleation_detectors.py:652-655: cumsum, half = cumsum[-1] / 2,
\* np.searchsorted(cumsum, half) = number of prefix sums below half
WeightedMedianRightSide(ds) ==
    LET sorted == SortByIndex(ds)
        total == SumWeights(sorted, Len(sorted))
        median_pos == Cardinality({k \in 1 .. Len(sorted) :
                                     2 * SumWeights(sorted, k) <= total})
        pos == IF median_pos < Len(sorted) - 1 THEN median_pos ELSE Len(sorted) - 1
    IN  sorted[pos + 1].index

WeightedMedian(ds) ==
    LET sorted == SortByIndex(ds)
        total == SumWeights(sorted, Len(sorted))
        median_pos == Cardinality({k \in 1 .. Len(sorted) :
                                     2 * SumWeights(sorted, k) < total})
        pos == IF median_pos < Len(sorted) - 1 THEN median_pos ELSE Len(sorted) - 1
    IN  sorted[pos + 1].index

\* nucleation_detectors.py:631-632: vote_fraction >= self.threshold
VoteFractionOffByOne(votes, threshold) ==
    votes * threshold.den >= threshold.num * (NumDetectors - 1)

VoteFractionMeets(votes, threshold) ==
    votes * threshold.den >= threshold.num * NumDetectors

EnsembleNotDetected(votes) ==
    [detected |-> FALSE, detection_index |-> None,
     confidence |-> [num |-> 0, den |-> 1], votes |-> votes]

\* nucleation_detectors.py:611-691 (the diagnostic signal trace aside)
EnsembleFuseOverAllWeights(results, threshold) ==
    LET detections == Detections(results, 1)
        votes == Len(detections)
    IN  IF detections = <<>> THEN EnsembleNotDetected(0)
        ELSE IF ~VoteFractionMeets(votes, threshold) THEN EnsembleNotDetected(votes)
        ELSE [detected |-> TRUE,
              detection_index |-> WeightedMedian(detections),
              confidence |->
                  [num |-> SumConfWeights(detections, votes),
                   den |-> (15 + 12 + 10 + 8 + 10 + 13) * ConfDen],
              votes |-> votes]

EnsembleFuse(results, threshold) ==
    LET detections == Detections(results, 1)
        votes == Len(detections)
    IN  IF detections = <<>> THEN EnsembleNotDetected(0)
        ELSE IF ~VoteFractionMeets(votes, threshold) THEN EnsembleNotDetected(votes)
        ELSE [detected |-> TRUE,
              detection_index |-> WeightedMedian(detections),
              confidence |-> [num |-> SumConfWeights(detections, votes),
                              den |-> SumWeights(detections, votes) * ConfDen],
              votes |-> votes]

EnsembleInit ==
    /\ ens_threshold \in EnsembleThresholds
    /\ ens_results = <<>>
    /\ ens_out = [detected |-> FALSE, detection_index |-> None]

\* EnsembleDetector.detect on a signal for which the six sub-detectors
\* return the drawn results
EnsembleDetect ==
    /\ ens_results = <<>>
    /\ \E results \in [1 .. NumDetectors -> SubResults] :
          /\ ens_results' = results
          /\ ens_out' = EnsembleFuse(results, ens_threshold)
    /\ UNCHANGED ens_threshold
    /\ UNCHANGED not_evars

EnsembleNext == EnsembleDetect

HarnessIdle ==
    /\ detection_tolerance = [r \in Runs |-> 0]
    /\ metrics = [r \in Runs |-> [d \in 1 .. Len(DetectorTypes) |-> EvaluationMetrics]]
    /\ sim_i = 0
    /\ sim = [transition_type |-> "pitchfork", transition_index |-> 0]
    /\ det_k = 0
    /\ sim_result = [r \in Runs |-> [d \in 1 .. Len(DetectorTypes) |-> NoRecord]]

InitEnsemble ==
    EnsembleInit /\ HarnessIdle /\ FindTransitionIdle /\ SimulatorIdle /\ DetectorIdle /\ CallIdle

SpecEnsemble == InitEnsemble /\ [][EnsembleNext]_vars

\* The sub-detectors that vote: detected with a non-null index.
Voters == {k \in DOMAIN ens_results :
             ens_results[k].detected /\ ens_results[k].detection_index # None}

\* ceil(threshold * 6)
CeilThresholdTimesSix ==
    (ens_threshold.num * 6 + ens_threshold.den - 1) \div ens_threshold.den

\* C3: for every combination of sub-detector outcomes and every positive
\* threshold, the ensemble does not report detected = TRUE when fewer than
\* ceil(threshold * 6) sub-detectors voted.
C3_EnsembleAgreement ==
    (ens_results # <<>> /\ Cardinality(Voters) < CeilThresholdTimesSix)
        => ~ens_out.detected

\* C3 witness: the ensemble fired with exactly the required number of
\* votes, fewer than six.
C3_Witness ==
    /\ ens_results # <<>>
    /\ ens_out.detected
    /\ Cardinality(Voters) = CeilThresholdTimesSix
    /\ Cardinality(Voters) < 6

\* sub-detector k votes
Votes(k) == ens_results[k].detected /\ ens_results[k].detection_index # None

\* the indices the voters reported
VoterIndices == {ens_results[k].detection_index : k \in Voters}

\* the total weight of the voters among the first k sub-detectors whose
\* index is at most v
RECURSIVE VoterWeightUpTo(_, _)
VoterWeightUpTo(v, k) ==
    IF k = 0 THEN 0
    ELSE VoterWeightUpTo(v, k - 1)
           + (IF Votes(k) /\ ens_results[k].detection_index <= v
              THEN Weights[SubDetectorTypes[k]] ELSE 0)

\* C18: when the ensemble fires, detection_index is the smallest index v
\* reported by a voter such that the voters with index <= v carry at least
\* half of the total weight of the voters; it lies between the smallest
\* and the largest voter index.
C18_WeightedMedianOfVoters ==
    (ens_results # <<>> /\ ens_out.detected) =>
        LET idx == ens_out.detection_index
            total == VoterWeightUpTo(MaxVoteIndex, NumDetectors)
        IN  /\ idx \in VoterIndices
            /\ 2 * VoterWeightUpTo(idx, NumDetectors) >= total
            /\ \A v \in VoterIndices :
                  v < idx => 2 * VoterWeightUpTo(v, NumDetectors) < total

\* C18 witness: the ensemble fired on voters with different indices, as
\* many of them on the smaller index, and reported the larger one, which
\* the heavier voters share.
C18_Witness ==
    /\ ens_results # <<>>
    /\ ens_out.detected
    /\ \E v \in VoterIndices : v < ens_out.detection_index
    /\ Cardinality({k \in Voters :
                       ens_results[k].detection_index < ens_out.detection_index})
          >= Cardinality({k \in Voters :
                            ens_results[k].detection_index = ens_out.detection_index})
    /\ Cardinality({k \in Voters :
                       ens_results[k].detection_index = ens_out.detection_index}) >= 2

\* the sum over the voters among the first k sub-detectors of confidence
\* times weight, and the sum of their weights
RECURSIVE VoterConfidenceWeight(_)
VoterConfidenceWeight(k) ==
    IF k = 0 THEN 0
    ELSE VoterConfidenceWeight(k - 1)
           + (IF Votes(k)
              THEN ens_results[k].confidence * Weights[SubDetectorTypes[k]] ELSE 0)

RECURSIVE VoterWeight(_)
VoterWeight(k) ==
    IF k = 0 THEN 0
    ELSE VoterWeight(k - 1)
           + (IF Votes(k) THEN Weights[SubDetectorTypes[k]] ELSE 0)

\* C19: when the ensemble fires, its confidence is the sum over the voters
\* of confidence * weight divided by the sum of the voters' weights; the
\* other sub-detectors contribute to neither sum, and the value lies
\* between the smallest and the largest voter confidence.
C19_WeightedMeanConfidence ==
    (ens_results # <<>> /\ ens_out.detected) =>
        LET c == ens_out.confidence
        IN  /\ c.den > 0
            /\ c.num * VoterWeight(NumDetectors) * ConfDen
                  = VoterConfidenceWeight(NumDetectors) * c.den
            /\ \E k \in Voters : ens_results[k].confidence * c.den <= c.num * ConfDen
            /\ \E k \in Voters : ens_results[k].confidence * c.den >= c.num * ConfDen

\* C19 witness: the ensemble fired with a confidence strictly between two
\* voter confidences, while a sub-detector that did not vote reported a
\* positive confidence.
C19_Witness ==
    /\ ens_results # <<>>
    /\ ens_out.detected
    /\ \E k \in Voters :
          ens_results[k].confidence * ens_out.confidence.den
              < ens_out.confidence.num * ConfDen
    /\ \E k \in Voters :
          ens_results[k].confidence * ens_out.confidence.den
              > ens_out.confidence.num * ConfDen
    /\ \E k \in DOMAIN ens_results :
          k \notin Voters /\ ens_results[k].confidence > 0

(***************************************************************************)
(* Numeric helpers.                                                        *)
(***************************************************************************)
Min(a, b) == IF a < b THEN a ELSE b

Max(a, b) == IF a > b THEN a ELSE b

\* sum of f[a], ..., f[b] (0 when b < a)
RECURSIVE SumRange(_, _, _)
SumRange(f, a, b) ==
    IF b < a THEN 0
    ELSE IF a = b THEN f[a]
    ELSE LET mid == (a + b) \div 2
         IN  SumRange(f, a, mid) + SumRange(f, mid + 1, b)

\* sum of the squares of f[a], ..., f[b]
RECURSIVE SumSquares(_, _, _)
SumSquares(f, a, b) ==
    IF b < a THEN 0
    ELSE IF a = b THEN f[a] * f[a]
    ELSE LET mid == (a + b) \div 2
         IN  SumSquares(f, a, mid) + SumSquares(f, mid + 1, b)

\* np.argmax of a non-empty sequence: the 0-based position of the first maximum
ArgMax(seq) ==
    CHOOSE k \in 0 .. Len(seq) - 1 :
        /\ \A j \in 1 .. Len(seq) : seq[j] <= seq[k + 1]
        /\ \A j \in 1 .. k : seq[j] < seq[k + 1]

\* Python slice seq[a:b] of a sequence (0-based, clipped to the array)
Slice(seq, a, b) ==
    LET lo == Max(a, 0)
        hi == Min(b, Len(seq))
    IN  IF hi <= lo THEN <<>> ELSE SubSeq(seq, lo + 1, hi)

(***************************************************************************)
(* find_transition_index (phase_transitions.py:60-124).                    *)
(* State arrays hold integers (fixed-point values).  exclude_edges is      *)
(* e = edges / 10, so int(n * e) = (n * edges) \div 10 and                 *)
(* int(n * (1 - e)) = (n * (10 - edges)) \div 10.                          *)
(***************************************************************************)
NaN == -1     \* an undefined rolling variance (variances are >= 0)

DefaultEdges == 1        \* exclude_edges = 0.1
TransitionWindow == 30   \* window = 30
VarianceWindow == 50     \* compute_variance_trajectory window = 50
MaxSmoothWindow == 20    \* min(20, n // 20)

EdgeStart(n, edges) == (n * edges) \div 10

EdgeEnd(n, edges) == (n * (10 - edges)) \div 10

\* phase_transitions.py:51-57, variance times window^2; NaN before the
\* first full window
ComputeVarianceTrajectory(state, window) ==
    [i \in 1 .. Len(state) |->
        IF i - 1 < window THEN NaN
        ELSE window * SumSquares(state, i - window, i - 1)
               - SumRange(state, i - window, i - 1) * SumRange(state, i - window, i - 1)]

\* phase_transitions.py:80-85, np.convolve(state, kernel, mode='same') times
\* smooth_window: entry i sums state[i - w//2 .. i - w//2 + w - 1] (0-based)
Smoothed(state) ==
    LET n == Len(state)
        w == Min(MaxSmoothWindow, n \div 20)
    IN  IF w > 1
        THEN [i \in 1 .. n |->
                SumRange(state, Max(1, i - (w \div 2)), Min(n, i - (w \div 2) + w - 1))]
        ELSE state

\* phase_transitions.py:87, np.abs(np.diff(smoothed))
AbsDiff(seq) ==
    [j \in 1 .. Len(seq) - 1 |-> Abs(seq[j + 1] - seq[j])]

\* phase_transitions.py:78-93
FindTransitionDerivativeNoOffset(state, edges) ==
    LET n == Len(state)
        start == EdgeStart(n, edges)
        end == EdgeEnd(n, edges)
        derivative == AbsDiff(Smoothed(state))
        window == Slice(derivative, start, end)
    IN  IF end > start
        THEN IF window = <<>> THEN Raised
             ELSE Min(ArgMax(window), n - 1)
        ELSE Min(n \div 2, n - 1)

FindTransitionDerivative(state, edges) ==
    LET n == Len(state)
        start == EdgeStart(n, edges)
        end == EdgeEnd(n, edges)
        derivative == AbsDiff(Smoothed(state))
        window == Slice(derivative, start, end)
    IN  IF end > start
        THEN IF window = <<>> THEN Raised    \* np.argmax of an empty array
             ELSE Min(start + ArgMax(window), n - 1)
        ELSE Min(n \div 2, n - 1)

\* phase_transitions.py:95-104
FindTransitionVariancePeakRoundUp(state, window, edges) ==
    LET n == Len(state)
        start == EdgeStart(n, edges)
        end == EdgeEnd(n, edges)
        var_traj == ComputeVarianceTrajectory(state, window)
        var_in_range == [i \in 1 .. n |->
            IF i - 1 < start \/ i - 1 >= end \/ var_traj[i] = NaN THEN 0
            ELSE var_traj[i]]
    IN  IF \A i \in 1 .. n : (start <= i - 1 /\ i - 1 < end) => var_traj[i] = NaN
        THEN (n + 1) \div 2
        ELSE ArgMax(var_in_range)

FindTransitionVariancePeak(state, window, edges) ==
    LET n == Len(state)
        start == EdgeStart(n, edges)
        end == EdgeEnd(n, edges)
        var_traj == ComputeVarianceTrajectory(state, window)
        var_in_range == [i \in 1 .. n |->
            IF i - 1 < start \/ i - 1 >= end \/ var_traj[i] = NaN THEN 0
            ELSE var_traj[i]]
    IN  IF \A i \in 1 .. n : (start <= i - 1 /\ i - 1 < end) => var_traj[i] = NaN
        THEN n \div 2
        ELSE ArgMax(var_in_range)

\* Bounds of the arrays find_transition_index is called on.
MaxArrayLen == 6     \* every array over 0 .. MaxValue up to this length
MaxValue == 1
MaxEdges == 5        \* exclude_edges from 0.0 to MaxEdges / 10

\* a step from 0 to 1 at position b of an array of length n
StepArray(n, b) == [i \in 1 .. n |-> IF i <= b THEN 0 ELSE 1]

\* long enough for the smoothing kernel (n // 20 > 1)
LongArrays ==
    {StepArray(n, b) : n \in {40, 45}, b \in {0, 3, 20, 38}}
      \cup {StepArray(400, b) : b \in {5, 200, 395}}

StateArrays ==
    UNION {[1 .. n -> 0 .. MaxValue] : n \in 1 .. MaxArrayLen} \cup LongArrays

FindTransitionInit ==
    /\ fti_state \in StateArrays
    /\ fti_edges \in 0 .. MaxEdges
    /\ fti_out = NotCalled

\* find_transition_index(state, method="derivative", exclude_edges=e)
CallFindTransitionIndex ==
    /\ fti_out = NotCalled
    /\ fti_out' = FindTransitionDerivative(fti_state, fti_edges)
    /\ UNCHANGED <<fti_state, fti_edges>>
    /\ UNCHANGED not_fvars

FindTransitionNext == CallFindTransitionIndex

InitFindTransition ==
    FindTransitionInit /\ HarnessIdle /\ EnsembleIdle /\ SimulatorIdle /\ DetectorIdle /\ CallIdle

SpecFindTransition == InitFindTransition /\ [][FindTransitionNext]_vars

FtiStart == EdgeStart(Len(fti_state), fti_edges)

FtiEnd == EdgeEnd(Len(fti_state), fti_edges)

\* C7 as stated: for every array of length n >= 1 and every exclude_edges
\* e, the derivative method returns i with int(n*e) <= i < int(n*(1-e)).
C7_Original ==
    fti_out # NotCalled => (FtiStart <= fti_out /\ fti_out < FtiEnd)

\* C7 as amended: when the central region is non-empty and n >= 2 the
\* derivative method returns an index inside it (with the default e = 0.1
\* that is every n >= 2); when the region is empty it returns n // 2.
C7_InsideNonEmptyRegion ==
    fti_out # NotCalled =>
        /\ (Len(fti_state) >= 2 /\ FtiStart < FtiEnd)
              => (FtiStart <= fti_out /\ fti_out < FtiEnd)
        /\ (fti_edges = DefaultEdges /\ Len(fti_state) >= 2) => FtiStart < FtiEnd
        /\ FtiStart >= FtiEnd => fti_out = Len(fti_state) \div 2

\* C7 witness: a call with the default e on a smoothed array returned an
\* index strictly inside the central region, away from its first index.
C7_Witness ==
    /\ fti_out # NotCalled
    /\ fti_edges = DefaultEdges
    /\ Len(fti_state) >= 40
    /\ FtiStart < fti_out /\ fti_out < FtiEnd

(***************************************************************************)
(* The simulators (phase_transitions.py:127-412).                          *)
(*                                                                         *)
(* Doubles are modelled in fixed point: a state value x stands for         *)
(* x / Scale, products are rounded down to a multiple of 1 / Scale.        *)
(* numpy's global generator is a small generator with the same interface:  *)
(* np.random.seed(k) sets its state to a function of k, every draw         *)
(* returns a function of the state and advances it.  A standard normal     *)
(* draw is a whole number of standard deviations in -2 .. 2.               *)
(***************************************************************************)
Scale == 1000

SqrtDtDen == 10      \* config.dt = 0.01, np.sqrt(dt) = 1 / SqrtDtDen

RngMod == 8         \* number of generator states

\* every draw advances the generator state by one
RngNext(s) == (s + 1) % RngMod

\* np.random.seed(seed)
RngSeed(seed) == (7 * seed + 1) % RngMod

\* the generator state after j draws from state s
RngAt(s, j) == (s + j) % RngMod

\* the number a draw in state s is made from
RngOutput(s) == (s * s + 3 * s + 1) % RngMod

\* np.random.randn() drawn in state s
Randn(s) == (RngOutput(s) % 5) - 2

\* np.random.randint(lo, hi) drawn in state s
RandInt(s, lo, hi) == lo + (RngOutput(s) % (hi - lo))

\* np.random.uniform(0.4, 0.7) drawn in state s, in tenths
RandFraction(s) == 4 + (RngOutput(s) % 3)

TransitionType ==
    {"pitchfork", "saddle_node", "hopf", "transcritical", "nucleation", "commitment"}

\* phase_transitions.py:137-138 (and 178, 218, 260, 302, 360)
ReseedForgotten(config, ambient) == ambient

Reseed(config, ambient) ==
    IF config.seed # None THEN RngSeed(config.seed) ELSE ambient

Mul(a, b) == (a * b) \div Scale

Clip(x, lo, hi) == IF x < lo THEN lo ELSE IF x > hi THEN hi ELSE x

\* np.linspace(lo, hi, n)[k]
Linspace(lo, hi, n, k) ==
    IF n = 1 THEN lo ELSE lo + ((hi - lo) * k) \div (n - 1)

\* the control parameter trace at index k (146, 186, 226, 267, 343, 394)
ControlParamThroughTarget(config, k) ==
    LET n == config.duration
        lead == 200 * config.transition_fraction
    IN  CASE config.transition_type = "pitchfork" -> Linspace(-lead, 2000 - lead, n, k)
          [] config.transition_type = "saddle_node" -> Linspace(-1000, 100, n, k)
          [] config.transition_type = "hopf" -> Linspace(-500, 500, n, k)
          [] config.transition_type = "transcritical" -> Linspace(-500, 500, n, k)
          [] config.transition_type = "nucleation" -> Linspace(0, 1000, n, k)
          [] config.transition_type = "commitment" -> 0

ControlParam(config, k) ==
    LET n == config.duration
    IN  CASE config.transition_type = "pitchfork" -> Linspace(-1000, 1000, n, k)
          [] config.transition_type = "saddle_node" -> Linspace(-1000, 100, n, k)
          [] config.transition_type = "hopf" -> Linspace(-500, 500, n, k)
          [] config.transition_type = "transcritical" -> Linspace(-500, 500, n, k)
          [] config.transition_type = "nucleation" -> Linspace(0, 1000, n, k)
          [] config.transition_type = "commitment" -> 0   \* see Simulate

\* int(n * config.transition_fraction), the fraction in tenths
TransTarget(config) == (config.duration * config.transition_fraction) \div 10

\* floor of the square root, by bisection on lo^2 <= v < hi^2
RECURSIVE IsqrtBetween(_, _, _)
IsqrtBetween(v, lo, hi) ==
    IF hi - lo <= 1 THEN lo
    ELSE LET mid == (lo + hi) \div 2
         IN  IF mid * mid <= v THEN IsqrtBetween(v, mid, hi)
             ELSE IsqrtBetween(v, lo, mid)

\* np.abs(z) of the complex sample <<re, im>>
Modulus(z) == IsqrtBetween(z[1] * z[1] + z[2] * z[2], 0, Abs(z[1]) + Abs(z[2]) + 1)

\* the first sample x[0] (149, 189, 229, 270, 311, 368); s0 is the
\* generator state simulate starts from.  A sample is a pair: the state
\* and, for hopf, the imaginary part, for commitment, the commitment level.
InitialSample(config, s0) ==
    CASE config.transition_type = "pitchfork" -> <<10 * Randn(s0), 0>>
      [] config.transition_type = "saddle_node" -> <<-1000 + 10 * Randn(s0), 0>>
      [] config.transition_type = "hopf" -> <<10, 10>>
      [] config.transition_type = "transcritical" -> <<10, 0>>
      [] config.transition_type = "nucleation" -> <<-1000, 0>>
      [] config.transition_type = "commitment" -> <<0, 0>>

\* how many draws the loop has made before the step that computes x[i]
DrawsBefore(config, i) ==
    CASE config.transition_type \in {"pitchfork", "saddle_node"} -> i
      [] config.transition_type = "hopf" -> 2 * (i - 1)
      [] OTHER -> i - 1

\* how many draws one simulate call makes
NumDraws(config) == DrawsBefore(config, config.duration)

\* sigma * sqrt(dt) * z, then drift * dt
Diffusion(sigma, z) == (sigma * z) \div SqrtDtDen

DriftDt(drift) == drift \div (SqrtDtDen * SqrtDtDen)

\* phase_transitions.py:373, commitment[i] from commitment[i-1]; levels
\* are kept times Scale * n, where the increment 0.001 + 0.002 * (i / n)
\* is the whole number n + 2 * i
CommitmentLevelUncapped(n, previous, i) == previous + n + 2 * i

CommitmentLevel(n, previous, i) == Min(Scale * n, previous + n + 2 * i)

\* phase_transitions.py:376, 1.0 - 0.85 * commitment[i] times Scale
NoiseFactor(n, commitment) == 1000 - (850 * (commitment \div n)) \div Scale

\* phase_transitions.py:380, the negation of commitment[i] < 0.7
Committed(n, commitment) == commitment >= 700 * n

\* one Euler-Maruyama step: sample i from sample i - 1
\* (151-155, 191-196, 231-236, 272-276, 318-330, 371-386)
Step(config, prev, i, s0) ==
    LET n == config.duration
        sigma == config.noise_level
        x == prev[1]
        r == ControlParam(config, i - 1)
        s == RngAt(s0, DrawsBefore(config, i))
        z == Randn(s)
    IN  CASE config.transition_type = "pitchfork" ->
               <<x + DriftDt(Mul(r, x) - Mul(Mul(x, x), x)) + Diffusion(sigma, z), 0>>
          [] config.transition_type = "saddle_node" ->
               <<Clip(x + DriftDt(r + Mul(x, x)) + Diffusion(sigma, z), -5000, 5000), 0>>
          [] config.transition_type = "hopf" ->
               LET im == prev[2]
                   a == r - (Mul(x, x) + Mul(im, im))
                   z_im == Randn(RngNext(s))
               IN  <<x + DriftDt(Mul(a, x) - 2 * im) + (Diffusion(sigma, z) * 707) \div Scale,
                     im + DriftDt(Mul(a, im) + 2 * x)
                        + (Diffusion(sigma, z_im) * 707) \div Scale>>
          [] config.transition_type = "transcritical" ->
               <<Clip(x + DriftDt(Mul(r, x) - Mul(x, x)) + Diffusion(sigma, z), -3000, 3000), 0>>
          [] config.transition_type = "nucleation" ->
               LET dist_to_trans == (Scale * Abs(i - TransTarget(config))) \div n
                   commitment_factor == Max(200, Min(1000, dist_to_trans * 4))
                   drift == (-4) * Mul(x, Mul(x, x) - 1000) + (i \div n)
               IN  <<x + DriftDt(drift) + Diffusion(Mul(sigma, commitment_factor), z), 0>>
          [] config.transition_type = "commitment" ->
               \* prev[2] is commitment[i-1] times Scale * n (373)
               LET commitment == CommitmentLevel(n, prev[2], i)
                   noise_factor == NoiseFactor(n, commitment)
                   drift == IF ~Committed(n, commitment) THEN Mul(-50, x)
                            ELSE Mul(300, 1000 - x)
               IN  <<x + DriftDt(drift) + Diffusion(Mul(sigma, noise_factor), z),
                     commitment>>

\* the integration loop "for i in range(1, n)"
RECURSIVE Trajectory(_, _, _, _)
Trajectory(config, s0, path, i) ==
    IF i >= config.duration THEN path
    ELSE Trajectory(config, s0, Append(path, Step(config, path[i], i, s0)), i + 1)

\* Scale * exp(-j / 30), with exp(-1/30) taken as 0.967
RECURSIVE ExpDecay(_)
ExpDecay(j) == IF j = 0 THEN Scale ELSE (ExpDecay(j - 1) * 967) \div Scale

\* phase_transitions.py:333-335, the pull that forces the crossing
ForceTransition(config, x) ==
    LET target == TransTarget(config)
    IN  IF x[target + 1] < 0
        THEN [k \in 1 .. Len(x) |->
                IF k - 1 >= target
                THEN x[k] + (300 * (Scale - ExpDecay(k - 1 - target))) \div Scale
                ELSE x[k]]
        ELSE x

\* simulate(config) started with the global generator in state ambient:
\* the SimulationResult, and the generator state it leaves behind
Simulate(config, ambient) ==
    LET n == config.duration
        s0 == Reseed(config, ambient)
        path == Trajectory(config, s0, <<InitialSample(config, s0)>>, 1)
        real == [k \in 1 .. n |-> path[k][1]]
        x == IF config.transition_type = "nucleation"
             THEN ForceTransition(config, real) ELSE real
        trans_idx ==
            IF config.transition_type = "hopf"
            THEN FindTransitionVariancePeak([k \in 1 .. n |-> Modulus(path[k])],
                                            TransitionWindow, DefaultEdges)
            ELSE FindTransitionDerivative(x, DefaultEdges)
    IN  [result |->
            [time |-> [k \in 1 .. n |-> k - 1],
             state |-> x,
             control_param |->
                [k \in 1 .. n |->
                    IF config.transition_type = "commitment" THEN path[k][2] \div n
                    ELSE ControlParam(config, k - 1)],
             transition_index |-> trans_idx,
             transition_type |-> config.transition_type,
             config |-> config,
             variance_trajectory |-> ComputeVarianceTrajectory(x, VarianceWindow)],
         rng |-> RngAt(s0, NumDraws(config))]

(***************************************************************************)
(* Calls of simulate on one config, with other random draws in between.    *)
(***************************************************************************)
MaxDuration == 4      \* every duration from 1 to MaxDuration
LongDuration == 40    \* a duration long enough for the rolling windows
MaxSeed == 1

Durations == (1 .. MaxDuration) \cup {LongDuration}

NoiseLevels == {100}      \* noise_level = 0.1

Fractions == {4, 6}       \* transition_fraction = 0.4, 0.6

SimulationConfigs ==
    [transition_type : TransitionType, duration : Durations,
     noise_level : NoiseLevels, transition_fraction : Fractions,
     seed : {None} \cup (0 .. MaxSeed)]

SimulateInit ==
    /\ rng \in 0 .. RngMod - 1
    /\ sim_config \in SimulationConfigs
    /\ sim_calls = 0
    /\ sim_first = NoResult
    /\ sim_last = NoResult
    /\ gd_args = [seed |-> None]
    /\ gd_out = <<>>

\* simulate(sim_config)
CallSimulate ==
    /\ sim_last = NoResult \/ sim_calls = 1      \* a first and a second call
    /\ LET r == Simulate(sim_config, rng)
           out == [result |-> r.result, ambient |-> rng]
       IN  /\ sim_last' = out
           /\ sim_first' = IF sim_calls = 0 THEN out ELSE sim_first
           /\ rng' = r.rng
    /\ sim_calls' = sim_calls + 1
    /\ UNCHANGED <<sim_config, gd_args, gd_out>>
    /\ UNCHANGED not_svars

\* any other code drawing from the global generator between two calls
AmbientDraw ==
    /\ rng' = RngNext(rng)
    /\ UNCHANGED <<sim_config, sim_calls, sim_first, sim_last, gd_args, gd_out>>
    /\ UNCHANGED not_svars

SimulateNext == CallSimulate \/ AmbientDraw

InitSimulate ==
    SimulateInit /\ HarnessIdle /\ EnsembleIdle /\ FindTransitionIdle /\ DetectorIdle /\ CallIdle

SpecSimulate == InitSimulate /\ [][SimulateNext]_vars

\* C8: the SimulationResult of every archetype and duration >= 1 has time,
\* state, control_param and variance_trajectory of length duration and
\* 0 <= transition_index < duration.
C8_LengthInvariants ==
    sim_calls >= 1 =>
        LET r == sim_last.result
            d == sim_config.duration
        IN  /\ Len(r.time) = d
            /\ Len(r.state) = d
            /\ Len(r.control_param) = d
            /\ Len(r.variance_trajectory) = d
            /\ 0 <= r.transition_index
            /\ r.transition_index < d

\* C8 witness: a hopf run long enough for the rolling variance, whose
\* transition index is the variance peak and not the fallback n // 2.
C8_Witness ==
    /\ sim_calls >= 1
    /\ sim_config.transition_type = "hopf"
    /\ sim_config.duration = LongDuration
    /\ sim_last.result.transition_index # LongDuration \div 2
    /\ sim_last.result.transition_index > 0

\* C9: two calls of simulate with the same seeded config return the same
\* state array and transition index, whatever the generator state was
\* before each call.
C9_SeedDeterminism ==
    (sim_calls >= 2 /\ sim_config.seed # None) =>
        /\ sim_last.result.state = sim_first.result.state
        /\ sim_last.result.transition_index = sim_first.result.transition_index

\* C9 witness: two calls of a seeded config of at least three steps that
\* started from different generator states.
C9_Witness ==
    /\ sim_calls >= 2
    /\ sim_config.seed # None
    /\ sim_config.duration >= 3
    /\ sim_first.ambient # sim_last.ambient
    /\ sim_first.ambient # RngSeed(sim_config.seed)

\* C25: whenever the integrated state of simulate_nucleation at the target
\* index int(duration * transition_fraction) is still in the left well
\* (x < 0), the corrective pull forces the crossing: the returned
\* trajectory is in the right well (x > 0) at some index at or after the
\* target.  The pull is 0 at the target index itself, so the returned
\* sample there is the integrated one.
C25_PullForcesCrossing ==
    (/\ sim_calls >= 1
     /\ sim_config.transition_type = "nucleation"
     /\ TransTarget(sim_config) < sim_config.duration
     /\ sim_last.result.state[TransTarget(sim_config) + 1] < 0)
        => \E k \in TransTarget(sim_config) + 1 .. sim_config.duration :
               sim_last.result.state[k] > 0

(***************************************************************************)
(* generate_dataset, run twice with the same seed and two lists of         *)
(* archetypes.                                                             *)
(***************************************************************************)
DatasetSims == 2           \* n_simulations
MinDatasetDuration == 2    \* durations[0]
MaxDatasetDuration == 6    \* durations[1]
MaxTypes == 2              \* len(transition_types)

DatasetNoiseLevels == <<50, 100, 150, 200>>

TypeLists == [1 .. MaxTypes -> TransitionType]

\* the config built for simulation i with the generator in state s
DatasetConfig(seed, types, i, s) ==
    [transition_type |-> types[(i % Len(types)) + 1],
     noise_level |-> DatasetNoiseLevels[(i % Len(DatasetNoiseLevels)) + 1],
     duration |-> RandInt(s, MinDatasetDuration, MaxDatasetDuration),
     transition_fraction |-> RandFraction(RngNext(s)),
     seed |-> IF seed # None THEN seed + i ELSE None]

RECURSIVE DatasetLoop(_, _, _, _, _)
DatasetLoop(seed, types, i, s, results) ==
    IF i >= DatasetSims THEN [results |-> results, rng |-> s]
    ELSE LET r == Simulate(DatasetConfig(seed, types, i, s), RngAt(s, 2))
         IN  DatasetLoop(seed, types, i + 1, r.rng, Append(results, r.result))

GenerateDataset(seed, types, ambient) ==
    DatasetLoop(seed, types, 0,
                IF seed # None THEN RngSeed(seed) ELSE ambient, <<>>)

DatasetInit ==
    /\ rng \in 0 .. RngMod - 1
    /\ gd_args \in [seed : {None} \cup (0 .. MaxSeed),
                    transition_types : [Runs -> TypeLists]]
    /\ gd_out = [run \in Runs |-> <<>>]
    /\ sim_config = [transition_type |-> "pitchfork"]
    /\ sim_calls = 0
    /\ sim_first = NoResult
    /\ sim_last = NoResult

\* generate_dataset(n_simulations, transition_types[run], seed=seed)
CallGenerateDataset ==
    \E run \in Runs :
        /\ gd_out[run] = <<>>
        /\ LET d == GenerateDataset(gd_args.seed,
                                    gd_args.transition_types[run], rng)
           IN  /\ gd_out' = [gd_out EXCEPT ![run] = d.results]
               /\ rng' = d.rng
        /\ UNCHANGED <<sim_config, sim_calls, sim_first, sim_last, gd_args>>
        /\ UNCHANGED not_svars

DatasetNext == CallGenerateDataset

InitDataset ==
    DatasetInit /\ HarnessIdle /\ EnsembleIdle /\ FindTransitionIdle /\ DetectorIdle /\ CallIdle

SpecDataset == InitDataset /\ [][DatasetNext]_vars

\* C10: in two corpora generated with the same seed, simulation i has the
\* same duration and transition_fraction, and the same trajectory when its
\* archetype is the same, whatever the archetypes of simulations 0..i-1.
C10_NoLeakBetweenSimulations ==
    (gd_args.seed # None /\ gd_out[1] # <<>> /\ gd_out[2] # <<>>) =>
        \A i \in 1 .. DatasetSims :
            LET a == gd_out[1][i]
                b == gd_out[2][i]
            IN  /\ a.config.duration = b.config.duration
                /\ a.config.transition_fraction = b.config.transition_fraction
                /\ a.transition_type = b.transition_type => a.state = b.state

(***************************************************************************)
(* The base detectors (nucleation_detectors.py:44-569).                    *)
(* A detector instance is the record of its constructor parameters.        *)
(* Signals hold integers.  The rolling variance is kept times window^2,    *)
(* which is an integer; NaN is the sentinel NaN.  A threshold is the       *)
(* rational num / den.  A confidence c stands for c / ConfDen, rounded     *)
(* down.                                                                   *)
(***************************************************************************)
\* the array a function over 1 .. n denotes
Array(f) == SubSeq(f, 1, Len(f))

\* Python a[i] on a 1-based sequence
At(a, i) == a[i + 1]

\* what detect hands back: a DetectionResult, or an exception
DetectionResult(detected, detection_index, confidence) ==
    [raised |-> FALSE, detected |-> detected,
     detection_index |-> detection_index, confidence |-> confidence]

\* detected=False, detection_index=None, confidence=0.0
NotDetectedStaleIndex == DetectionResult(FALSE, 0, 0)

NotDetected == DetectionResult(FALSE, None, 0)

RaisedError == [raised |-> TRUE]

\* nucleation_detectors.py:56-63
ComputeRollingVariance(signal, w) ==
    Array([i \in 1 .. Len(signal) |->
        IF i - 1 < w THEN NaN
        ELSE LET sum == SumRange(signal, i - w, i - 1)
             IN  w * SumSquares(signal, i - w, i - 1) - sum * sum])

\* the array with 0 in place of NaN, and the array of its valid flags
Zeroed(a) == Array([i \in 1 .. Len(a) |-> IF a[i] = NaN THEN 0 ELSE a[i]])

ValidFlags(a) == Array([i \in 1 .. Len(a) |-> IF a[i] = NaN THEN 0 ELSE 1])

\* the k-th smallest (k from 0) of the values a set of positions holds
KthSmallest(a, positions, k) ==
    CHOOSE v \in {a[j] : j \in positions} :
        /\ Cardinality({j \in positions : a[j] < v}) <= k
        /\ k < Cardinality({j \in positions : a[j] <= v})

\* np.nanmedian(a) as the fraction num / 2; NaN when no entry is valid
NanMedianTimesTwo(a) ==
    LET positions == {j \in 1 .. Len(a) : a[j] # NaN}
        k == Cardinality(positions)
    IN  IF k = 0 THEN NaN
        ELSE KthSmallest(a, positions, (k - 1) \div 2)
               + KthSmallest(a, positions, k \div 2)

\* nucleation_detectors.py:74-111.  valid[i]: signal[i] is not NaN;
\* hit[i]: signal[i] passes the comparison with the threshold (a NaN never
\* does).  np.nanmean(check) is the mean of a boolean array.
FindSustainedCrossing(valid, hit, sustain_count, start_idx) ==
    LET n == Len(valid)
        Upto(i) == Min(n, i + sustain_count) - 1
        found == {i \in Max(start_idx, sustain_count) .. n - sustain_count - 1 :
                    /\ At(valid, i)
                    /\ Cardinality({j \in i .. Upto(i) : At(valid, j)})
                          >= sustain_count \div 2
                    /\ 10 * Cardinality({j \in i .. Upto(i) : At(hit, j)})
                          > 7 * (Upto(i) - i + 1)}
    IN  IF found = {} THEN None
        ELSE CHOOSE i \in found : \A j \in found : i <= j

\* n ones
Ones(n) == Array([k \in 1 .. n |-> 1])

\* nucleation_detectors.py:113-137, mode "max", on the trace whose entry i
\* is num[i] / den[i] (den[i] > 0), and is NaN where valid[i] = 0.
\* The NaN entries of the region are replaced by the mean of the valid
\* ones, so one of them is the first maximum only when all valid entries
\* are equal, and then the first entry of the region is the argmax.
FindPeak(valid, num, den) ==
    LET n == Len(num)
        start == (n * 15) \div 100
        end == (n * 85) \div 100
        Leq(i, j) == At(num, i) * At(den, j) <= At(num, j) * At(den, i)
        region == {i \in start .. end - 1 : At(valid, i) = 1}
    IN  IF region = {} THEN None
        ELSE LET best == CHOOSE i \in region :
                            /\ \A j \in region : Leq(j, i)
                            /\ \A j \in region : j < i => ~Leq(i, j)
             IN  IF \A j \in region : Leq(best, j) THEN start ELSE best

\* VarianceRatioDetector.__init__ (147-156)
VarianceRatioDetectorWideBand(window) ==
    [type |-> "variance_ratio", window |-> window, baseline_window |-> 80,
     threshold |-> [num |-> 3, den |-> 5], sustain |-> 15]

VarianceRatioDetector(window) ==
    [type |-> "variance_ratio", window |-> window, baseline_window |-> 80,
     threshold |-> [num |-> 2, den |-> 5], sustain |-> 15]

\* nucleation_detectors.py:162-171: the baseline as the fraction
\* num / den of the scaled variance; num = NaN when it is undefined
VarianceRatioBaseline(variance, d) ==
    LET n == Len(variance)
        zeroed == Zeroed(variance)
        flags == ValidFlags(variance)
        median == NanMedianTimesTwo(variance)
    IN  Array([k \in 1 .. n |->
            LET i == k - 1
                lo == Max(0, i - d.baseline_window)
                hi == i - d.window \div 2
                count == SumRange(flags, lo + 1, hi)
            IN  IF i >= d.baseline_window + d.window /\ count > 0
                THEN [num |-> SumRange(zeroed, lo + 1, hi), den |-> count]
                ELSE [num |-> median, den |-> 2]])

\* ratio[i] < t, where ratio[i] = variance[i] / max(baseline[i], 1e-10)
RatioBelow(v, b, t) ==
    /\ v # NaN /\ b.num # NaN
    /\ IF b.num = 0 THEN v = 0 ELSE v * b.den * t.den < t.num * b.num

\* ratio[i] > t
RatioAbove(v, b, t) ==
    /\ v # NaN /\ b.num # NaN
    /\ IF b.num = 0 THEN v > 0 ELSE v * b.den * t.den > t.num * b.num

\* np.isnan(ratio), as flags
RatioValid(variance, baseline) ==
    Array([k \in 1 .. Len(variance) |->
              variance[k] # NaN /\ baseline[k].num # NaN])

\* nucleation_detectors.py:181-184: the reduction branch
VarianceRatioIdxLow(signal, d) ==
    LET variance == ComputeRollingVariance(signal, d.window)
        baseline == VarianceRatioBaseline(variance, d)
        below == Array([k \in 1 .. Len(signal) |->
                          RatioBelow(variance[k], baseline[k], d.threshold)])
    IN  FindSustainedCrossing(RatioValid(variance, baseline), below,
                              d.sustain, d.baseline_window)

\* nucleation_detectors.py:187-190: the increase branch, against 1 / threshold
VarianceRatioIdxHigh(signal, d) ==
    LET variance == ComputeRollingVariance(signal, d.window)
        baseline == VarianceRatioBaseline(variance, d)
        inverse == [num |-> d.threshold.den, den |-> d.threshold.num]
        above == Array([k \in 1 .. Len(signal) |->
                          RatioAbove(variance[k], baseline[k], inverse)])
    IN  FindSustainedCrossing(RatioValid(variance, baseline), above,
                              d.sustain, d.baseline_window)

\* nucleation_detectors.py:196-197, 205: min(1, abs(1 - ratio[detection_idx]))
VarianceRatioConfidenceUnclamped(v, b) ==
    IF v = NaN \/ b.num = NaN THEN 0
    ELSE IF b.num = 0 THEN ConfDen
    ELSE (ConfDen * Abs(b.num - v * b.den)) \div b.num

VarianceRatioConfidence(v, b) ==
    IF v = NaN \/ b.num = NaN THEN 0
    ELSE IF b.num = 0 THEN ConfDen
    ELSE Min(ConfDen, (ConfDen * Abs(b.num - v * b.den)) \div b.num)

\* VarianceRatioDetector.detect (158-214)
VarianceRatioDetect(signal, d) ==
    LET variance == ComputeRollingVariance(signal, d.window)
        baseline == VarianceRatioBaseline(variance, d)
        idx_low == VarianceRatioIdxLow(signal, d)
        idx_high == VarianceRatioIdxHigh(signal, d)
        candidates == {idx_low, idx_high} \ {None}
    IN  IF candidates # {}
        THEN LET detection_idx == CHOOSE i \in candidates :
                                     \A j \in candidates : i <= j
             IN  DetectionResult(TRUE, detection_idx,
                     VarianceRatioConfidence(At(variance, detection_idx),
                                             At(baseline, detection_idx)))
        ELSE NotDetected

\* VarianceDerivativeDetector.__init__ (224-231)
VarianceDerivativeDetector(window) ==
    [type |-> "variance_derivative", window |-> window,
     derivative_window |-> 25, threshold |-> [num |-> 3, den |-> 10]]

\* nucleation_detectors.py:238-247: abs_deriv as the fraction num / den,
\* num = NaN where the derivative is left undefined
AbsDerivative(variance, d) ==
    LET zeroed == Zeroed(variance)
        flags == ValidFlags(variance)
        dw == d.derivative_window
    IN  Array([k \in 1 .. Len(variance) |->
            LET i == k - 1
                sum == SumRange(zeroed, k - dw, k)
                count == SumRange(flags, k - dw, k)
            IN  IF /\ i >= dw + d.window
                   /\ variance[k] # NaN /\ variance[k - dw] # NaN
                   /\ sum > 0
                THEN [num |-> Abs(variance[k] - variance[k - dw]) * count,
                      den |-> sum]
                ELSE [num |-> NaN, den |-> 1]])

\* VarianceDerivativeDetector.detect (233-275)
VarianceDerivativeDetect(signal, d) ==
    LET variance == ComputeRollingVariance(signal, d.window)
        abs_deriv == AbsDerivative(variance, d)
        num == Array([k \in 1 .. Len(abs_deriv) |-> abs_deriv[k].num])
        den == Array([k \in 1 .. Len(abs_deriv) |-> abs_deriv[k].den])
        peak_idx == FindPeak(ValidFlags(num), num, den)
        t == d.threshold
    IN  IF peak_idx # None /\ At(abs_deriv, peak_idx).num # NaN
        THEN LET peak == At(abs_deriv, peak_idx)
             IN  IF peak.num * t.den > t.num * peak.den
                 THEN DetectionResult(TRUE, peak_idx,
                          Min(ConfDen,
                              (ConfDen * peak.num * t.den) \div (t.num * peak.den)))
                 ELSE NotDetected
        ELSE NotDetected

\* the largest r with r * r <= v
Isqrt(v) == IsqrtBetween(v, 0, Min(v, 46340) + 1)

\* whether the entries of a at the positions a .. b are not all equal
\* (their standard deviation is above 1e-10)
Spread(a, lo, hi) == \E j \in lo .. hi : a[j] # a[lo]

\* np.var of a[lo .. hi], from the rounded mean and mean square
VarianceOf(a, lo, hi) ==
    LET count == hi - lo + 1
        mean == SumRange(a, lo, hi) \div count
    IN  Max(0, SumSquares(a, lo, hi) \div count - mean * mean)

\* np.std of a[lo .. hi] when it is above 1e-10
StdOf(a, lo, hi) == Max(1, Isqrt(VarianceOf(a, lo, hi)))

\* the rolling variance in units of 1 / Scale
FixedPoint(variance, w) ==
    Array([k \in 1 .. Len(variance) |->
              IF variance[k] = NaN THEN NaN
              ELSE (variance[k] * Scale) \div (w * w)])

\* VarianceInflectionDetector.__init__ (286-293)
VarianceInflectionDetector(window) ==
    [type |-> "variance_inflection", window |-> window,
     smooth_window |-> 20, threshold |-> [num |-> 1, den |-> 5]]

\* np.convolve(a, np.ones(m), mode='same'): max(len(a), m) entries, entry i
\* sums the a[j] with i + off - m < j <= i + off
ConvolveSame(a, m) ==
    LET n == Len(a)
        off == (Min(n, m) - 1) \div 2
    IN  Array([k \in 1 .. Max(n, m) |->
            SumRange(a, Max(1, k + off - m + 1), Min(n, k + off))])

\* np.gradient(f), times two
GradientTimesTwo(f) ==
    LET n == Len(f)
    IN  Array([k \in 1 .. n |->
            IF k = 1 THEN 2 * (f[2] - f[1])
            ELSE IF k = n THEN 2 * (f[n] - f[n - 1])
            ELSE f[k + 1] - f[k - 1]])

\* nucleation_detectors.py:299-313: inflection_signal times
\* 8 * window^2 * smooth_window, for a variance with a valid entry
InflectionSignal(variance, d) ==
    LET median == NanMedianTimesTwo(variance)
        valid_var == Array([k \in 1 .. Len(variance) |->
                        IF variance[k] = NaN THEN median ELSE 2 * variance[k]])
        smoothed == ConvolveSame(valid_var, d.smooth_window)
        d2 == GradientTimesTwo(GradientTimesTwo(smoothed))
    IN  Array([k \in 1 .. Len(d2) |-> Abs(d2[k])])

\* a trace divided by the factor that brings its largest entry to about
\* Scale (score / typical does not depend on the unit of the trace)
Normalised(a) ==
    LET largest == CHOOSE v \in {a[k] : k \in 1 .. Len(a)} :
                      \A k \in 1 .. Len(a) : a[k] <= v
        unit == Max(1, largest \div Scale)
    IN  Array([k \in 1 .. Len(a) |-> a[k] \div unit])

\* VarianceInflectionDetector.detect (295-351)
VarianceInflectionDetect(signal, d) ==
    LET variance == ComputeRollingVariance(signal, d.window)
        t == d.threshold
    IN  IF Len(signal) = 0 THEN RaisedError   \* np.convolve of an empty array
        ELSE IF Max(Len(signal), d.smooth_window) < 2
        THEN RaisedError                      \* np.gradient of one sample
        ELSE IF \A k \in 1 .. Len(variance) : variance[k] = NaN
        THEN NotDetected                      \* the trace is NaN throughout
        ELSE
        LET inflection_signal == InflectionSignal(variance, d)
            len == Len(inflection_signal)
            peak_idx == FindPeak(Ones(len), inflection_signal, Ones(len))
            normalised == Normalised(inflection_signal)
        IN  IF peak_idx # None
            THEN LET score == At(normalised, peak_idx)
                     typical == StdOf(normalised, 1, len)
                 IN  IF /\ Spread(inflection_signal, 1, len)
                        /\ score * t.den > t.num * typical
                     THEN DetectionResult(TRUE, peak_idx,
                              Min(ConfDen, (ConfDen * score * t.den)
                                              \div (3 * t.num * typical)))
                     ELSE NotDetected
            ELSE NotDetected

\* RollingZScoreDetector.__init__ (361-370)
RollingZScoreDetector(window) ==
    [type |-> "rolling_zscore", window |-> window, zscore_window |-> 80,
     threshold |-> [num |-> 2, den |-> 1], sustain |-> 10]

\* the valid entries of a[lo .. hi], in order
ValidData(a, lo, hi) ==
    IF hi < lo THEN <<>>
    ELSE SelectSeq(SubSeq(a, lo, hi), LAMBDA v : v # NaN)

\* nucleation_detectors.py:375-389: abs_zscore in units of 1 / Scale
AbsZScore(variance, d) ==
    LET n == Len(variance)
    IN  Array([k \in 1 .. n |->
            LET i == k - 1
                valid_data == ValidData(variance,
                                  Max(1, k - d.zscore_window),
                                  i - d.window \div 2)
                len == Len(valid_data)
            IN  IF /\ i >= d.zscore_window + d.window
                   /\ len > 10
                   /\ Spread(valid_data, 1, len)
                   /\ variance[k] # NaN
                THEN (Abs(variance[k] - SumRange(valid_data, 1, len) \div len)
                         * Scale) \div StdOf(valid_data, 1, len)
                ELSE NaN])

\* RollingZScoreDetector.detect (372-415)
RollingZScoreDetect(signal, d) ==
    LET variance == FixedPoint(ComputeRollingVariance(signal, d.window), d.window)
        abs_zscore == AbsZScore(variance, d)
        n == Len(abs_zscore)
        t == d.threshold
        valid == Array([k \in 1 .. n |-> abs_zscore[k] # NaN])
        above == Array([k \in 1 .. n |->
                    abs_zscore[k] # NaN /\ abs_zscore[k] * t.den > t.num * Scale])
        detection_idx == FindSustainedCrossing(valid, above, d.sustain,
                                               d.zscore_window)
    IN  IF detection_idx # None
        THEN LET window_data == ValidData(abs_zscore, detection_idx + 1,
                                    Min(n, detection_idx + d.sustain))
                 mean == SumRange(window_data, 1, Len(window_data))
                            \div Len(window_data)
             IN  DetectionResult(TRUE, detection_idx,
                     IF mean * t.den >= t.num * Scale THEN ConfDen
                     ELSE (ConfDen * mean * t.den) \div (t.num * Scale))
        ELSE NotDetected

\* CUSUMDetector.__init__ (425-432)
CUSUMDetector(window) ==
    [type |-> "cusum", window |-> window,
     drift |-> [num |-> 3, den |-> 10], threshold |-> [num |-> 4, den |-> 1]]

\* nucleation_detectors.py:450-456: the standard deviation that
\* standardizes the valid variance
CusumStd(valid_variance, baseline_n) ==
    IF Spread(valid_variance, 1, baseline_n)
    THEN StdOf(valid_variance, 1, baseline_n)
    ELSE IF Spread(valid_variance, 1, Len(valid_variance))
    THEN StdOf(valid_variance, 1, Len(valid_variance))
    ELSE Scale

\* nucleation_detectors.py:461-463, one pass of the loop: the running sums
\* at index i from the sums c at index i - 1 (both are 0 at index 0)
CusumSumsUnclamped(standardized, d, i, c) ==
    LET drift == (d.drift.num * Scale) \div d.drift.den
    IN  [pos |-> IF i = 0 THEN 0 ELSE c.pos + At(standardized, i) - drift,
         neg |-> IF i = 0 THEN 0 ELSE c.neg + At(standardized, i) + drift]

CusumSums(standardized, d, i, c) ==
    LET drift == (d.drift.num * Scale) \div d.drift.den
    IN  [pos |-> IF i = 0 THEN 0
                 ELSE Max(0, c.pos + At(standardized, i) - drift),
         neg |-> IF i = 0 THEN 0
                 ELSE Min(0, c.neg + At(standardized, i) + drift)]

\* nucleation_detectors.py:461-477, one index i: the running sums after
\* i, and the first index at which max(cusum_pos, abs(cusum_neg)) exceeds
\* the threshold, with that value
CusumStep(standardized, d, i, c) ==
    LET sums == CusumSums(standardized, d, i, c)
        cusum_pos == sums.pos
        cusum_neg == sums.neg
        cusum_abs == Max(cusum_pos, Abs(cusum_neg))
    IN  IF c.index # None THEN c
        ELSE IF cusum_abs * d.threshold.den > d.threshold.num * Scale
        THEN [pos |-> cusum_pos, neg |-> cusum_neg,
              index |-> i, value |-> cusum_abs]
        ELSE [pos |-> cusum_pos, neg |-> cusum_neg, index |-> None, value |-> 0]

\* the indices lo .. hi - 1 in order, starting from the sums c
RECURSIVE CusumScan(_, _, _, _, _)
CusumScan(standardized, d, lo, hi, c) ==
    IF hi <= lo THEN c
    ELSE IF hi = lo + 1 THEN CusumStep(standardized, d, lo, c)
    ELSE LET mid == (lo + hi) \div 2
             first == CusumScan(standardized, d, lo, mid, c)
         IN  IF first.index # None THEN first      \* detect has returned
             ELSE CusumScan(standardized, d, mid, hi, first)

\* nucleation_detectors.py:435-447, variance[valid_mask]
CusumValidVariance(signal, d) ==
    LET variance == FixedPoint(ComputeRollingVariance(signal, d.window), d.window)
    IN  ValidData(variance, 1, Len(variance))

\* nucleation_detectors.py:472, np.where(valid_mask)[0]
CusumValidIndices(signal, d) ==
    LET variance == ComputeRollingVariance(signal, d.window)
    IN  SelectSeq([k \in 1 .. Len(variance) |-> k - 1],
                  LAMBDA i : At(variance, i) # NaN)

\* nucleation_detectors.py:449-458, (valid_variance - mean) / std in units
\* of 1 / Scale
CusumStandardized(signal, d) ==
    LET valid_variance == CusumValidVariance(signal, d)
        baseline_n == Max(10, Len(valid_variance) \div 3)
        mean == SumRange(valid_variance, 1, baseline_n) \div baseline_n
        std == CusumStd(valid_variance, baseline_n)
    IN  Array([k \in 1 .. Len(valid_variance) |->
                  ((valid_variance[k] - mean) * Scale) \div std])

\* CUSUMDetector.detect (434-493)
CUSUMDetect(signal, d) ==
    LET valid_variance == CusumValidVariance(signal, d)
        valid_indices == CusumValidIndices(signal, d)
    IN  IF Len(valid_variance) < 20 THEN NotDetected
        ELSE
        LET standardized == CusumStandardized(signal, d)
            crossing == CusumScan(standardized, d, 0, Len(standardized),
                                  [pos |-> 0, neg |-> 0, index |-> None, value |-> 0])
            t == d.threshold
        IN  IF crossing.index # None
            THEN DetectionResult(TRUE, At(valid_indices, crossing.index),
                     IF crossing.value * t.den >= t.num * Scale THEN ConfDen
                     ELSE (ConfDen * crossing.value * t.den) \div (t.num * Scale))
            ELSE NotDetected

\* ChangePointDetector.__init__ (503-510)
ChangePointDetector(window) ==
    [type |-> "change_point", window |-> window, min_segment |-> 50,
     threshold |-> [num |-> 3, den |-> 10]]

\* nucleation_detectors.py:526-547: llr in units of 1 / Scale
LogLikelihoodRatio(variance, d) ==
    LET n == Len(variance)
        w == d.window
        all == ValidData(variance, w + 1, n)
        spread == Spread(all, 1, Len(all))
        var_all == Max(1, VarianceOf(all, 1, Len(all)))
    IN  Array([k \in 1 .. n |->
            LET i == k - 1
                left_valid == ValidData(variance, w + 1, i)
                right_valid == ValidData(variance, i + 1, n)
                nl == Len(left_valid)
                nr == Len(right_valid)
            IN  IF /\ i >= d.min_segment + w
                   /\ i < n - d.min_segment
                   /\ nl >= 10 /\ nr >= 10
                   /\ spread     \* var_all > 1e-10
                THEN LET weighted_within ==
                            (nl * VarianceOf(left_valid, 1, nl)
                               + nr * VarianceOf(right_valid, 1, nr))
                                \div (nl + nr)
                     IN  Scale - (weighted_within * Scale)
                                    \div var_all
                ELSE 0])

\* ChangePointDetector.detect (512-569)
ChangePointDetect(signal, d) ==
    LET variance == FixedPoint(ComputeRollingVariance(signal, d.window), d.window)
        n == Len(variance)
        t == d.threshold
    IN  IF Len(ValidData(variance, 1, n)) < 2 * d.min_segment THEN NotDetected
        ELSE
        LET llr == LogLikelihoodRatio(variance, d)
            peak_idx == FindPeak(Ones(n), llr, Ones(n))
        IN  IF peak_idx # None /\ At(llr, peak_idx) * t.den > t.num * Scale
            THEN DetectionResult(TRUE, peak_idx,
                     Min(ConfDen, (ConfDen * At(llr, peak_idx)) \div Scale))
            ELSE NotDetected

\* EnsembleDetector.__init__ (580-606): the sub-detectors share the window
EnsembleDetector(window, threshold) ==
    [type |-> "ensemble", window |-> window, threshold |-> threshold,
     detectors |-> <<VarianceRatioDetector(window),
                     VarianceDerivativeDetector(window),
                     VarianceInflectionDetector(window),
                     RollingZScoreDetector(window),
                     CUSUMDetector(window),
                     ChangePointDetector(window)>>]

\* detect of a base detector
BaseDetect(signal, d) ==
    CASE d.type = "variance_ratio" -> VarianceRatioDetect(signal, d)
      [] d.type = "variance_derivative" -> VarianceDerivativeDetect(signal, d)
      [] d.type = "variance_inflection" -> VarianceInflectionDetect(signal, d)
      [] d.type = "rolling_zscore" -> RollingZScoreDetect(signal, d)
      [] d.type = "cusum" -> CUSUMDetect(signal, d)
      [] d.type = "change_point" -> ChangePointDetect(signal, d)

\* EnsembleDetector.detect (608-691) on a signal: an exception of a
\* sub-detector propagates
EnsembleDetectSignal(signal, d) ==
    LET results == Array([k \in 1 .. Len(d.detectors) |->
                             BaseDetect(signal, d.detectors[k])])
    IN  IF \E k \in 1 .. Len(d.detectors) : results[k].raised
        THEN RaisedError
        ELSE LET fused == EnsembleFuse(results, d.threshold)
             IN  [raised |-> FALSE, detected |-> fused.detected,
                  detection_index |-> fused.detection_index,
                  confidence |-> fused.confidence, votes |-> fused.votes]

\* detector.detect(signal)
Detect(signal, d) ==
    IF d.type = "ensemble" THEN EnsembleDetectSignal(signal, d)
    ELSE BaseDetect(signal, d)

(***************************************************************************)
(* One detect call of a default detector instance on a signal.             *)
(***************************************************************************)
DefaultWindow == 40
LongSignal == 260      \* length of the signals with a step in their variance

\* the default instance of each of the seven detector types
DetectorInstances ==
    {VarianceRatioDetector(DefaultWindow),
     VarianceDerivativeDetector(DefaultWindow),
     VarianceInflectionDetector(DefaultWindow),
     RollingZScoreDetector(DefaultWindow),
     CUSUMDetector(DefaultWindow),
     ChangePointDetector(DefaultWindow),
     EnsembleDetector(DefaultWindow, [num |-> 2, den |-> 5])}

\* sample i of the pattern of period p: 1, then -1 half a period later,
\* 0 elsewhere (0 throughout for p = 0).  Over a window that holds whole
\* periods its variance is 2 / p.
Pattern(p, i) ==
    IF p = 0 THEN 0
    ELSE IF i % p = 0 THEN 1
    ELSE IF i % p = p \div 2 THEN -1
    ELSE 0

\* n samples: period p1 before index b, period p2 from b on
StepSignal(n, b, p1, p2) ==
    Array([k \in 1 .. n |->
              IF k - 1 < b THEN Pattern(p1, k - 1) ELSE Pattern(p2, k - 1)])

Periods == {0, 2, 4, 8}

ShortLengths == {0, 1, DefaultWindow + 1, 3 * DefaultWindow - 1}

DetectorSignals ==
    {StepSignal(n, n \div 2, p[1], p[2]) :
        n \in ShortLengths, p \in {<<2, 0>>, <<0, 2>>, <<2, 2>>}}
      \cup {StepSignal(LongSignal, LongSignal \div 2, p1, p2) :
              p1 \in Periods, p2 \in Periods}

DetectorInit ==
    /\ det_detector \in DetectorInstances
    /\ det_signal \in DetectorSignals
    /\ det_out = NoCall

\* det_detector.detect(det_signal)
CallDetect ==
    /\ ~det_out.called
    /\ det_out' = [called |-> TRUE, result |-> Detect(det_signal, det_detector)]
    /\ UNCHANGED <<det_detector, det_signal>>
    /\ UNCHANGED not_dvars

DetectorNext == CallDetect

InitDetector ==
    DetectorInit /\ HarnessIdle /\ EnsembleIdle /\ FindTransitionIdle /\ SimulatorIdle /\ CallIdle

SpecDetector == InitDetector /\ [][DetectorNext]_vars

\* C4: on every signal shorter than 3 * window, the empty one included,
\* each of the six base detectors returns detected = False and
\* detection_index = None and does not raise.
C4_ShortSignalNotDetected ==
    (/\ det_out.called
     /\ det_detector.type # "ensemble"
     /\ Len(det_signal) < 3 * det_detector.window)
        => /\ ~det_out.result.raised
           /\ ~det_out.result.detected
           /\ det_out.result.detection_index = None

\* the long signal whose rolling variance steps from 2 / p1 to 2 / p2
IsVarianceStep(p1, p2) ==
    det_signal = StepSignal(LongSignal, LongSignal \div 2, p1, p2)

VarianceRatioCalled ==
    det_out.called /\ det_detector = VarianceRatioDetector(DefaultWindow)

\* detected through the reduction branch only
ViaReduction ==
    /\ det_out.result.detected
    /\ VarianceRatioIdxLow(det_signal, det_detector) # None
    /\ VarianceRatioIdxHigh(det_signal, det_detector) = None
    /\ det_out.result.detection_index
          = VarianceRatioIdxLow(det_signal, det_detector)

\* detected through the increase branch only
ViaIncrease ==
    /\ det_out.result.detected
    /\ VarianceRatioIdxHigh(det_signal, det_detector) # None
    /\ VarianceRatioIdxLow(det_signal, det_detector) = None
    /\ det_out.result.detection_index
          = VarianceRatioIdxHigh(det_signal, det_detector)

C6_IndexIffDetected ==
    (det_out.called /\ ~det_out.result.raised) =>
        (det_out.result.detection_index # None <=> det_out.result.detected)

\* C6 witness: the ensemble returned a detection with an index while one of
\* its sub-detectors returned none.
C6_Witness ==
    /\ det_out.called
    /\ det_detector.type = "ensemble"
    /\ ~det_out.result.raised
    /\ det_out.result.detected
    /\ det_out.result.detection_index # None
    /\ det_out.result.votes < Len(det_detector.detectors)

\* the confidence of a returned result as the fraction num / den
ConfidenceOf(result) ==
    IF det_detector.type = "ensemble" THEN result.confidence
    ELSE [num |-> result.confidence, den |-> ConfDen]

\* C17: every DetectionResult returned by one of the seven detectors has
\* 0 <= confidence <= 1, and confidence = 0 when detected is False.
C17_ConfidenceInUnitInterval ==
    (det_out.called /\ ~det_out.result.raised) =>
        LET c == ConfidenceOf(det_out.result)
        IN  /\ c.den > 0
            /\ 0 <= c.num
            /\ c.num <= c.den
            /\ ~det_out.result.detected => c.num = 0

\* C17 witness: the variance ratio detector fired on a ratio further than
\* 1 from 1, so that its confidence is the clamped value 1.
C17_Witness ==
    /\ VarianceRatioCalled
    /\ IsVarianceStep(8, 2)
    /\ det_out.result.detected
    /\ det_out.result.confidence = ConfDen

\* the running sums of every index lo .. hi - 1, in order, from the sums c
\* before lo (the loop of lines 461-463 run to its end)
RECURSIVE CusumTrace(_, _, _, _, _)
CusumTrace(standardized, d, lo, hi, c) ==
    IF hi <= lo THEN <<>>
    ELSE IF hi = lo + 1 THEN <<CusumSums(standardized, d, lo, c)>>
    ELSE LET mid == (lo + hi) \div 2
             first == CusumTrace(standardized, d, lo, mid, c)
         IN  first \o CusumTrace(standardized, d, mid, hi, first[Len(first)])

CusumCalled ==
    /\ det_out.called
    /\ det_detector.type = "cusum"
    /\ Len(CusumValidIndices(det_signal, det_detector)) >= 20

\* positions (from 0) among the valid samples at which
\* max(cusum_pos, |cusum_neg|) exceeds the threshold
CusumExceeding(trace) ==
    {i \in 0 .. Len(trace) - 1 :
        Max(trace[i + 1].pos, Abs(trace[i + 1].neg)) * det_detector.threshold.den
            > det_detector.threshold.num * Scale}

\* C23: with at least 20 valid variance samples, the running sums of the
\* CUSUM detector start at 0 and satisfy cusum_pos >= 0 and cusum_neg <= 0
\* at every step; the detector fires iff max(cusum_pos, |cusum_neg|)
\* exceeds the threshold at some valid sample, and detection_index is the
\* original-signal index of the earliest such sample.
C23_CusumFirstCrossing ==
    CusumCalled =>
        LET standardized == CusumStandardized(det_signal, det_detector)
            trace == CusumTrace(standardized, det_detector, 0, Len(standardized),
                                [pos |-> 0, neg |-> 0])
            exceeding == CusumExceeding(trace)
        IN  /\ trace[1] = [pos |-> 0, neg |-> 0]
            /\ \A i \in 1 .. Len(trace) : trace[i].pos >= 0 /\ trace[i].neg <= 0
            /\ det_out.result.detected <=> exceeding # {}
            /\ det_out.result.detected =>
                 \E i \in exceeding :
                    /\ \A j \in exceeding : i <= j
                    /\ det_out.result.detection_index
                         = At(CusumValidIndices(det_signal, det_detector), i)

\* C23 witness: the CUSUM detector fired at a sample that is not the first
\* valid one, which the negative sum carried over the threshold.
C23_Witness ==
    /\ CusumCalled
    /\ det_out.result.detected
    /\ det_out.result.detection_index > det_detector.window
    /\ LET standardized == CusumStandardized(det_signal, det_detector)
           trace == CusumTrace(standardized, det_detector, 0, Len(standardized),
                               [pos |-> 0, neg |-> 0])
           k == det_out.result.detection_index - det_detector.window
       IN  /\ trace[k + 1].neg * det_detector.threshold.den
                 < -(det_detector.threshold.num * Scale)
           /\ trace[k + 1].pos = 0

(***************************************************************************)
(* The factories: create_detector(detector_type) and simulate(config).     *)
(***************************************************************************)
\* class DetectorType(Enum), nucleation_detectors.py:22-29
DetectorType ==
    {"variance_ratio", "variance_derivative", "variance_inflection",
     "ensemble", "rolling_zscore", "cusum", "change_point"}

\* tags that are keys of neither dictionary, and one member of each enum
\* handed to the other factory
UnknownDetectorTags == {"variance", "threshold", "hopf"}
UnknownTransitionTags == {"fold", "cusum"}

\* d[key] of a dict without that key
KeyError(key) ==
    [called |-> TRUE, raised |-> TRUE, error |-> "KeyError", key |-> key]

Returned(value) == [called |-> TRUE, raised |-> FALSE, value |-> value]

\* nucleation_detectors.py:694-705, with no keyword arguments
CreateDetectorWithFallback(detector_type) ==
    Returned(IF detector_type = "variance_derivative"
                THEN VarianceDerivativeDetector(DefaultWindow)
             ELSE IF detector_type = "variance_inflection"
                THEN VarianceInflectionDetector(DefaultWindow)
             ELSE IF detector_type = "rolling_zscore"
                THEN RollingZScoreDetector(DefaultWindow)
             ELSE IF detector_type = "cusum" THEN CUSUMDetector(DefaultWindow)
             ELSE IF detector_type = "change_point"
                THEN ChangePointDetector(DefaultWindow)
             ELSE IF detector_type = "ensemble"
                THEN EnsembleDetector(DefaultWindow, [num |-> 2, den |-> 5])
             ELSE VarianceRatioDetector(DefaultWindow))

CreateDetector(detector_type) ==
    IF detector_type \notin DetectorType THEN KeyError(detector_type)
    ELSE Returned(
        CASE detector_type = "variance_ratio" -> VarianceRatioDetector(DefaultWindow)
          [] detector_type = "variance_derivative"
                -> VarianceDerivativeDetector(DefaultWindow)
          [] detector_type = "variance_inflection"
                -> VarianceInflectionDetector(DefaultWindow)
          [] detector_type = "rolling_zscore" -> RollingZScoreDetector(DefaultWindow)
          [] detector_type = "cusum" -> CUSUMDetector(DefaultWindow)
          [] detector_type = "change_point" -> ChangePointDetector(DefaultWindow)
          [] detector_type = "ensemble"
                -> EnsembleDetector(DefaultWindow, [num |-> 2, den |-> 5]))

\* phase_transitions.py:402-412: the dictionary lookup comes before the
\* call of the simulator, which is what seeds and draws
SimulateLookup(config, ambient) ==
    IF config.transition_type \notin TransitionType
    THEN [out |-> KeyError(config.transition_type), rng |-> ambient]
    ELSE LET r == Simulate(config, ambient)
         IN  [out |-> Returned(r.result), rng |-> r.rng]

TaggedConfigs ==
    [transition_type : TransitionType \cup UnknownTransitionTags,
     duration : 1 .. MaxDuration,
     noise_level : NoiseLevels, transition_fraction : Fractions,
     seed : {None} \cup (0 .. MaxSeed)]

FactoryInit ==
    /\ call_out = NoCall
    /\ \/ /\ \E t \in DetectorType \cup UnknownDetectorTags :
                call_args = [fn |-> "create_detector", detector_type |-> t]
          /\ SimulatorIdle
       \/ /\ rng \in 0 .. RngMod - 1
          /\ \E c \in TaggedConfigs :
                call_args = [fn |-> "simulate", config |-> c, ambient |-> rng]
          /\ sim_config = [transition_type |-> "pitchfork"]
          /\ sim_calls = 0
          /\ sim_first = NoResult
          /\ sim_last = NoResult
          /\ gd_args = [seed |-> None]
          /\ gd_out = <<>>

\* create_detector(call_args.detector_type)
CallCreateDetector ==
    /\ ~call_out.called
    /\ call_args.fn = "create_detector"
    /\ call_out' = CreateDetector(call_args.detector_type)
    /\ UNCHANGED call_args
    /\ UNCHANGED not_cvars

\* simulate(call_args.config)
CallSimulateLookup ==
    /\ ~call_out.called
    /\ call_args.fn = "simulate"
    /\ LET r == SimulateLookup(call_args.config, rng)
       IN  /\ call_out' = r.out
           /\ rng' = r.rng
    /\ UNCHANGED <<call_args, sim_config, sim_calls, sim_first, sim_last,
                   gd_args, gd_out>>
    /\ UNCHANGED <<hvars, evars, fvars, dvars>>

FactoryNext == CallCreateDetector \/ CallSimulateLookup

InitFactory ==
    FactoryInit /\ HarnessIdle /\ EnsembleIdle /\ FindTransitionIdle /\ DetectorIdle

SpecFactory == InitFactory /\ [][FactoryNext]_vars

\* C11: create_detector with a tag outside DetectorType, and simulate with
\* a transition_type outside TransitionType, raise at once an error that
\* carries the tag: no detector is constructed, and the generator is
\* neither seeded nor drawn from.  For a valid tag nothing is raised: the
\* detector of that type, or a simulation of the configured duration, is
\* returned.
C11_UnknownTagRaises ==
    call_out.called =>
        /\ call_args.fn = "create_detector" =>
              IF call_args.detector_type \in DetectorType
              THEN /\ ~call_out.raised
                   /\ call_out.value.type = call_args.detector_type
              ELSE /\ call_out.raised
                   /\ call_out.key = call_args.detector_type
                   /\ "value" \notin DOMAIN call_out
        /\ call_args.fn = "simulate" =>
              IF call_args.config.transition_type \in TransitionType
              THEN /\ ~call_out.raised
                   /\ Len(call_out.value.state) = call_args.config.duration
              ELSE /\ call_out.raised
                   /\ call_out.key = call_args.config.transition_type
                   /\ "value" \notin DOMAIN call_out
                   /\ rng = call_args.ambient

\* C11 witness: simulate has raised on a seeded config with an unknown tag,
\* with the generator in a state the seed would not have left.
C11_Witness ==
    /\ call_out.called
    /\ call_args.fn = "simulate"
    /\ call_out.raised
    /\ call_args.config.seed # None
    /\ rng # RngSeed(call_args.config.seed)

(***************************************************************************)
(* One detector instance reused for several detect calls, as               *)
(* run_experiment does with self.detectors over the corpus.                *)
(***************************************************************************)
MaxDetectCalls == 2
ReuseLength == 100

ReuseSignals ==
    {StepSignal(n, n \div 2, p[1], p[2]) :
        n \in {DefaultWindow + 1, ReuseLength},
        p \in {<<2, 0>>, <<0, 2>>, <<2, 2>>, <<2, 8>>}}

\* self after detect(signal): none of the detect methods, nor the helpers
\* they call, assigns to an attribute of self or changes self.detectors or
\* self.weights (nucleation_detectors.py:158-214, 233-275, 295-351,
\* 372-415, 434-493, 512-569, 608-691)
SelfAfterDetectAdapting(signal, d) ==
    [d EXCEPT !.window = IF Len(signal) < 2 * @ THEN @ \div 2 ELSE @]

SelfAfterDetect(signal, d) == d

\* harness.py:146-149: the instance is built once, by create_detector
ReuseInit ==
    /\ \E t \in DetectorType :
          call_args = [fn |-> "create_detector", detector_type |-> t]
    /\ call_out = CreateDetector(call_args.detector_type)
    /\ det_detector = call_out.value
    /\ det_signal = <<>>
    /\ det_out = NoCall

\* harness.py:162 on the next simulation: detector.detect(simulation.state)
DetectAgain ==
    /\ \/ ~det_out.called
       \/ det_out.called /\ det_out.calls < MaxDetectCalls
    /\ \E signal \in ReuseSignals :
          /\ det_signal' = signal
          /\ det_out' = [called |-> TRUE,
                         result |-> Detect(signal, det_detector),
                         calls |-> IF det_out.called THEN det_out.calls + 1 ELSE 1]
          /\ det_detector' = SelfAfterDetect(signal, det_detector)
    /\ UNCHANGED cvars
    /\ UNCHANGED <<hvars, evars, fvars, svars>>

ReuseNext == DetectAgain

InitReuse ==
    ReuseInit /\ HarnessIdle /\ EnsembleIdle /\ FindTransitionIdle /\ SimulatorIdle

SpecReuse == InitReuse /\ [][ReuseNext]_vars

\* C12: a detect call leaves the configuration of the detector as
\* create_detector built it (window, threshold, the other parameters, the
\* sub-detector list), so what detect returns on a signal after earlier
\* calls on other signals is what a fresh instance returns on it.
C12_DetectKeepsConfiguration ==
    /\ det_detector = call_out.value
    /\ det_out.called =>
          det_out.result = Detect(det_signal, CreateDetector(call_args.detector_type).value)

\* C12 witness: a second call on the ensemble instance has fired.
C12_Witness ==
    /\ det_out.called
    /\ det_out.calls = 2
    /\ det_detector.type = "ensemble"
    /\ ~det_out.result.raised
    /\ det_out.result.detected

(***************************************************************************)
(* EvaluationMetrics.precision, recall and f1_score (harness.py:52-65).    *)
(* A float is the exact fraction num / den, den > 0.                       *)
(***************************************************************************)
MaxCount == 4      \* largest value of a counter

Fraction(num, den) == [num |-> num, den |-> den]

Zero == Fraction(0, 1)

FracAdd(p, q) == Fraction(p.num * q.den + q.num * p.den, p.den * q.den)

FracMul(p, q) == Fraction(p.num * q.num, p.den * q.den)

\* p / q for q > 0
FracDiv(p, q) == Fraction(p.num * q.den, p.den * q.num)

FracEq(p, q) == p.num * q.den = q.num * p.den

FracLeq(p, q) == p.num * q.den <= q.num * p.den

\* harness.py:52-55
PrecisionOfMisses(m) ==
    LET denom == m.true_positives + m.false_negatives
    IN  IF denom > 0 THEN Fraction(m.true_positives, denom) ELSE Zero

Precision(m) ==
    LET denom == m.true_positives + m.false_positives
    IN  IF denom > 0 THEN Fraction(m.true_positives, denom) ELSE Zero

\* harness.py:57-60
Recall(m) ==
    LET denom == m.true_positives + m.false_negatives
    IN  IF denom > 0 THEN Fraction(m.true_positives, denom) ELSE Zero

\* harness.py:62-65
F1Score(m) ==
    LET p == Precision(m)
        r == Recall(m)
    IN  IF FracAdd(p, r).num > 0
        THEN FracDiv(FracMul(FracMul(Fraction(2, 1), p), r), FracAdd(p, r))
        ELSE Zero

Counters ==
    [true_positives : 0 .. MaxCount, false_positives : 0 .. MaxCount,
     false_negatives : 0 .. MaxCount, true_negatives : {0}]

MetricsInit ==
    /\ call_args \in Counters
    /\ call_out = NoCall

\* metrics.precision, metrics.recall, metrics.f1_score
ReadProperties ==
    /\ ~call_out.called
    /\ call_out' = [called |-> TRUE, precision |-> Precision(call_args),
                    recall |-> Recall(call_args), f1_score |-> F1Score(call_args)]
    /\ UNCHANGED call_args
    /\ UNCHANGED not_cvars

MetricsNext == ReadProperties

InitMetrics ==
    MetricsInit /\ HarnessIdle /\ EnsembleIdle /\ FindTransitionIdle
        /\ SimulatorIdle /\ DetectorIdle

SpecMetrics == InitMetrics /\ [][MetricsNext]_vars

InUnitInterval(p) == p.den > 0 /\ 0 <= p.num /\ p.num <= p.den

\* C14: for all non-negative counters, precision = TP / (TP + FP), recall
\* = TP / (TP + FN) and f1_score = 2 * precision * recall / (precision +
\* recall), the harmonic mean 2 TP / (2 TP + FP + FN); each is 0 when its
\* denominator is 0, and each lies in [0, 1].
C14_PrecisionRecallF1 ==
    call_out.called =>
        LET tp == call_args.true_positives
            fp == call_args.false_positives
            fn == call_args.false_negatives
            p == call_out.precision
            r == call_out.recall
            f == call_out.f1_score
        IN  /\ InUnitInterval(p) /\ InUnitInterval(r) /\ InUnitInterval(f)
            /\ IF tp + fp > 0 THEN FracEq(p, Fraction(tp, tp + fp)) ELSE p.num = 0
            /\ IF tp + fn > 0 THEN FracEq(r, Fraction(tp, tp + fn)) ELSE r.num = 0
            /\ IF p.num > 0 \/ r.num > 0
               THEN /\ f.num * (p.num * r.den + r.num * p.den) * p.den * r.den
                          = 2 * p.num * r.num * f.den * p.den * r.den
                    /\ FracEq(f, Fraction(2 * tp, 2 * tp + fp + fn))
               ELSE f.num = 0

\* C14 witness: the three properties were read from counters with hits,
\* false alarms and misses, and precision and recall differ.
C14_Witness ==
    /\ call_out.called
    /\ call_args.true_positives > 0
    /\ call_args.false_positives > 0
    /\ call_args.false_negatives > call_args.false_positives
    /\ ~FracEq(call_out.precision, call_out.recall)
    /\ call_out.f1_score.num > 0

(***************************************************************************)
(* The fold of run_experiment over the corpus, for one detector, with the  *)
(* simulations taken in any order (harness.py:206-250).  detect is a       *)
(* function of the signal, so each simulation comes with its detection.    *)
(***************************************************************************)
FoldSims == 3      \* simulations in the corpus

FoldDetections ==
    {[detected |-> FALSE, detection_index |-> None],
     [detected |-> FALSE, detection_index |-> 2],
     [detected |-> TRUE, detection_index |-> None],
     [detected |-> TRUE, detection_index |-> 0],
     [detected |-> TRUE, detection_index |-> 2]}

\* a simulation of the corpus with what the detector returns on it
FoldEntries ==
    [transition_type : TransitionTypes, transition_index : {1},
     detection : FoldDetections]

\* harness.py:183-201: the counters and the error lists before the loop
FoldStart ==
    [metrics |-> EvaluationMetrics,
     detection_errors |-> <<>>,
     per_type_errors |-> [t \in TransitionTypes |-> <<>>]]

\* harness.py:224-240 for one simulation
FoldOneKeepingLatest(acc, entry, tolerance) ==
    LET error == entry.detection.detection_index - entry.transition_index
        m == UpdateMetrics(acc.metrics, entry.detection, entry, tolerance)
    IN  IF Fired(entry.detection) /\ WithinTolerance(error, tolerance)
        THEN [metrics |-> m,
              detection_errors |-> <<error>>,
              per_type_errors |->
                  [acc.per_type_errors EXCEPT ![entry.transition_type] = <<error>>]]
        ELSE [acc EXCEPT !.metrics = m]

FoldOne(acc, entry, tolerance) ==
    LET error == entry.detection.detection_index - entry.transition_index
        m == UpdateMetrics(acc.metrics, entry.detection, entry, tolerance)
    IN  IF Fired(entry.detection) /\ WithinTolerance(error, tolerance)
        THEN [metrics |-> m,
              detection_errors |-> Append(acc.detection_errors, error),
              per_type_errors |->
                  [acc.per_type_errors EXCEPT
                      ![entry.transition_type] = Append(@, error)]]
        ELSE [acc EXCEPT !.metrics = m]

\* the loop over corpus[from .. Len(corpus)] in list order
RECURSIVE FoldInOrder(_, _, _, _)
FoldInOrder(acc, corpus, tolerance, from) ==
    IF from > Len(corpus) THEN acc
    ELSE FoldInOrder(FoldOne(acc, corpus[from], tolerance), corpus, tolerance, from + 1)

FoldInit ==
    /\ call_args \in [corpus : [1 .. FoldSims -> FoldEntries], tolerance : {0, 1}]
    /\ call_out = [called |-> FALSE, done |-> {}, acc |-> FoldStart]

\* one pass of the loop body, on a simulation not processed yet
FoldSimulation ==
    /\ \E i \in (1 .. FoldSims) \ call_out.done :
          call_out' =
              [called |-> call_out.done \cup {i} = 1 .. FoldSims,
               done |-> call_out.done \cup {i},
               acc |-> FoldOne(call_out.acc, call_args.corpus[i], call_args.tolerance)]
    /\ UNCHANGED call_args
    /\ UNCHANGED not_cvars

FoldNext == FoldSimulation

InitFold ==
    FoldInit /\ HarnessIdle /\ EnsembleIdle /\ FindTransitionIdle
        /\ SimulatorIdle /\ DetectorIdle

SpecFold == InitFold /\ [][FoldNext]_vars

\* how many entries of a list equal e
Occurrences(list, e) == Cardinality({k \in 1 .. Len(list) : list[k] = e})

SameMultiset(a, b) ==
    /\ Len(a) = Len(b)
    /\ \A k \in 1 .. Len(a) : Occurrences(a, a[k]) = Occurrences(b, a[k])

\* C15: whatever the order in which the simulations of a corpus are folded,
\* the final true_positives, false_positives and false_negatives and the
\* multisets of recorded errors, overall and per transition type, are
\* those of the fold in list order.
C15_FoldOrderIndependent ==
    call_out.called =>
        LET listed == FoldInOrder(FoldStart, call_args.corpus, call_args.tolerance, 1)
            acc == call_out.acc
        IN  /\ acc.metrics = listed.metrics
            /\ SameMultiset(acc.detection_errors, listed.detection_errors)
            /\ \A t \in TransitionTypes :
                  SameMultiset(acc.per_type_errors[t], listed.per_type_errors[t])

\* C15 witness: a fold has finished in an order that left the errors in
\* another sequence than the list order does.
C15_Witness ==
    /\ call_out.called
    /\ call_out.acc.detection_errors
          # FoldInOrder(FoldStart, call_args.corpus, call_args.tolerance, 1).detection_errors
    /\ call_out.acc.metrics.false_negatives >= 1

(***************************************************************************)
(* evaluate_on_real_data on one dataset (data/loaders.py:435-507).         *)
(***************************************************************************)
MaxTransitions == 2     \* known transitions of a dataset

\* loaders.py:479-489: the first known transition within the tolerance of
\* det_idx, from position k on; 0 when there is none
RECURSIVE FirstMatch(_, _, _, _)
FirstMatch(known_transitions, det_idx, tolerance, k) ==
    IF k > Len(known_transitions) THEN 0
    ELSE IF Abs(det_idx - known_transitions[k]) <= tolerance THEN k
    ELSE FirstMatch(known_transitions, det_idx, tolerance, k + 1)

\* loaders.py:456-499: what one dataset with known transitions adds to
\* results, and its entry of results["per_dataset"]
EvaluateDatasetStrictly(known_transitions, detection, tolerance) ==
    LET n == Len(known_transitions)
        det_idx == detection.detection_index
        k == FirstMatch(known_transitions, det_idx, tolerance - 1, 1)
    IN  IF detection.detected /\ det_idx # None
        THEN IF k # 0
             THEN [total_transitions |-> n, detected |-> 1, false_alarms |-> 0,
                   detection_errors |-> <<det_idx - known_transitions[k]>>,
                   hits |-> 1, misses |-> n - 1]
             ELSE [total_transitions |-> n, detected |-> 0, false_alarms |-> 1,
                   detection_errors |-> <<>>, hits |-> 0, misses |-> n]
        ELSE [total_transitions |-> n, detected |-> 0, false_alarms |-> 0,
              detection_errors |-> <<>>, hits |-> 0, misses |-> n]

EvaluateDataset(known_transitions, detection, tolerance) ==
    LET n == Len(known_transitions)
        det_idx == detection.detection_index
        k == FirstMatch(known_transitions, det_idx, tolerance, 1)
    IN  IF detection.detected /\ det_idx # None
        THEN IF k # 0
             THEN [total_transitions |-> n, detected |-> 1, false_alarms |-> 0,
                   detection_errors |-> <<det_idx - known_transitions[k]>>,
                   hits |-> 1, misses |-> n - 1]
             ELSE [total_transitions |-> n, detected |-> 0, false_alarms |-> 1,
                   detection_errors |-> <<>>, hits |-> 0, misses |-> n]
        ELSE [total_transitions |-> n, detected |-> 0, false_alarms |-> 0,
              detection_errors |-> <<>>, hits |-> 0, misses |-> n]

KnownTransitions ==
    UNION {[1 .. n -> 0 .. MaxIndex] : n \in 1 .. MaxTransitions}

RealDataInit ==
    /\ call_args \in [known_transitions : KnownTransitions,
                      detection : DetectionResults, tolerance : 0 .. MaxTol]
    /\ call_out = NoCall

\* evaluate_on_real_data([dataset], detector, tolerance), where
\* detector.detect(dataset.values) returns call_args.detection
CallEvaluateOnRealData ==
    /\ ~call_out.called
    /\ call_out' = [called |-> TRUE,
                    results |-> EvaluateDataset(call_args.known_transitions,
                                                call_args.detection,
                                                call_args.tolerance)]
    /\ UNCHANGED call_args
    /\ UNCHANGED not_cvars

RealDataNext == CallEvaluateOnRealData

InitRealData ==
    RealDataInit /\ HarnessIdle /\ EnsembleIdle /\ FindTransitionIdle
        /\ SimulatorIdle /\ DetectorIdle

SpecRealData == InitRealData /\ [][RealDataNext]_vars

\* a dataset with exactly one known transition has been evaluated
OneKnownTransition ==
    call_out.called /\ Len(call_args.known_transitions) = 1

\* what the harness counts for the same detection, true index and tolerance
HarnessCounts ==
    UpdateMetrics(EvaluationMetrics, call_args.detection,
                  [transition_index |-> call_args.known_transitions[1]],
                  call_args.tolerance)

\* hit iff true positive, with the signed error the harness records, and
\* false alarm iff false positive
HitsAndFalseAlarmsAgree ==
    LET r == call_out.results
        error == call_args.detection.detection_index - call_args.known_transitions[1]
    IN  /\ (r.detected = 1) <=> (HarnessCounts.true_positives = 1)
        /\ (r.hits = 1) <=> (HarnessCounts.true_positives = 1)
        /\ r.detection_errors
              = IF HarnessCounts.true_positives = 1 THEN <<error>> ELSE <<>>
        /\ (r.false_alarms = 1) <=> (HarnessCounts.false_positives = 1)

\* C16 as stated: for a dataset with one known transition and the same
\* tolerance, evaluate_on_real_data counts a hit (with the signed error)
\* iff the harness counts a true positive, a false alarm iff a false
\* positive, and a miss iff a false negative.
C16_Original ==
    OneKnownTransition =>
        /\ HitsAndFalseAlarmsAgree
        /\ (call_out.results.misses = 1) <=> (HarnessCounts.false_negatives = 1)

\* C16 as amended: hits and false alarms agree with the true and false
\* positives of the harness, but a miss is counted whenever there is no
\* hit: iff the harness counts a false negative or a false positive.
C16_MissIffNoHit ==
    OneKnownTransition =>
        /\ HitsAndFalseAlarmsAgree
        /\ (call_out.results.misses = 1)
              <=> (HarnessCounts.false_negatives = 1
                      \/ HarnessCounts.false_positives = 1)

\* C16 witness: a detection outside the tolerance of the one known
\* transition was counted as a false alarm and as a miss.
C16_Witness ==
    /\ OneKnownTransition
    /\ call_out.results.false_alarms = 1
    /\ call_out.results.misses = 1
    /\ HarnessCounts.false_positives = 1

(***************************************************************************)
(* BaseDetector.find_sustained_crossing on its own                         *)
(* (nucleation_detectors.py:74-111).  A sample is NaN, 1 when it passes    *)
(* the directional comparison with the threshold, 0 when it fails it.      *)
(***************************************************************************)
MaxCrossingLen == 6     \* longest signal drawn sample by sample
MaxSustain == 2         \* largest sustain_count drawn with those signals

CrossingSamples == {NaN, 0, 1}

\* ten samples that fail, `hits` that pass, then failing ones up to 31
PlateauSignal(hits) ==
    [k \in 1 .. 31 |-> IF k > 10 /\ k <= 10 + hits THEN 1 ELSE 0]

CrossingInit ==
    /\ call_out = NoCall
    /\ \/ \E n \in 0 .. MaxCrossingLen :
             \E signal \in [1 .. n -> CrossingSamples] :
                \E sustain_count \in 1 .. MaxSustain, start_idx \in 0 .. 2 :
                   call_args = [signal |-> signal, sustain_count |-> sustain_count,
                                start_idx |-> start_idx]
       \/ \E hits \in {6, 7, 8} :
             call_args = [signal |-> PlateauSignal(hits), sustain_count |-> 10,
                          start_idx |-> 0]

\* self.find_sustained_crossing(signal, threshold, direction,
\*                              sustain_count, start_idx)
CallFindSustainedCrossing ==
    /\ ~call_out.called
    /\ LET signal == call_args.signal
           valid == [k \in 1 .. Len(signal) |-> signal[k] # NaN]
           hit == [k \in 1 .. Len(signal) |-> signal[k] = 1]
       IN  call_out' = [called |-> TRUE,
                        result |-> FindSustainedCrossing(valid, hit,
                                       call_args.sustain_count, call_args.start_idx)]
    /\ UNCHANGED call_args
    /\ UNCHANGED not_cvars

CrossingNext == CallFindSustainedCrossing

InitCrossing ==
    CrossingInit /\ HarnessIdle /\ EnsembleIdle /\ FindTransitionIdle
        /\ SimulatorIdle /\ DetectorIdle

SpecCrossing == InitCrossing /\ [][CrossingNext]_vars

\* the samples signal[i .. i + sustain_count - 1] (Python indices) that are
\* not NaN, and those of them that pass the test
WindowValid(i) ==
    {j \in i .. i + call_args.sustain_count - 1 :
        j < Len(call_args.signal) /\ call_args.signal[j + 1] # NaN}

WindowPassing(i) == {j \in WindowValid(i) : call_args.signal[j + 1] = 1}

\* the indices the search visits at which at least 70% of the samples of
\* the window that are not NaN pass the test
SustainedIndices ==
    {i \in Max(call_args.start_idx, call_args.sustain_count)
             .. Len(call_args.signal) - call_args.sustain_count - 1 :
        /\ WindowValid(i) # {}
        /\ 10 * Cardinality(WindowPassing(i)) >= 7 * Cardinality(WindowValid(i))}

\* C20: find_sustained_crossing returns the first index searched at which
\* at least 70% of the non-NaN samples among signal[i .. i+sustain_count-1]
\* pass the threshold test (NaN samples are ignored, exactly 70% is
\* enough), and None only if there is no such index.
C20_FirstSustainedIndex ==
    call_out.called =>
        IF SustainedIndices = {} THEN call_out.result = None
        ELSE /\ call_out.result \in SustainedIndices
             /\ \A i \in SustainedIndices : call_out.result <= i

(***************************************************************************)
(* find_transition_index, method "state_threshold"                         *)
(* (phase_transitions.py:106-122).                                         *)
(*                                                                         *)
(* The comparisons are made exactly.  With m baseline samples of sum S and *)
(* sum of squares Q, mean = S / m and std^2 = (m*Q - S*S) / m^2, so        *)
(* |x - mean| > 2.5 * std is 4 * (m*x - S)^2 > 25 * (m*Q - S*S).  When     *)
(* the baseline is constant, std is replaced by np.std(state) / 3 and the  *)
(* test is 36 * n^2 * (m*x - S)^2 > 25 * m^2 * (n*Qa - Sa*Sa), with Sa, Qa *)
(* the sum and sum of squares of the whole array.                          *)
(***************************************************************************)
\* phase_transitions.py:108-109, baseline_end = max(start, n // 5)
BaselineEnd(n, edges) == Max(EdgeStart(n, edges), n \div 5)

\* phase_transitions.py:110-117, |state[i] - mean| > threshold (i 0-based);
\* on an empty baseline mean and threshold are nan and nothing compares
ExceedsThreshold(state, edges, i) ==
    LET n == Len(state)
        m == BaselineEnd(n, edges)
        S == SumRange(state, 1, m)
        Q == SumSquares(state, 1, m)
        Sa == SumRange(state, 1, n)
        Qa == SumSquares(state, 1, n)
        dev == m * state[i + 1] - S
    IN  /\ m > 0
        /\ IF m * Q - S * S = 0
           THEN 36 * n * n * dev * dev > 25 * m * m * (n * Qa - Sa * Sa)
           ELSE 4 * dev * dev > 25 * (m * Q - S * S)

\* phase_transitions.py:117, np.where(...)[0] shifted back by start: the
\* central-region indices that exceed the threshold
Crossings(state, edges) ==
    {i \in EdgeStart(Len(state), edges) .. Min(EdgeEnd(Len(state), edges), Len(state)) - 1 :
        ExceedsThreshold(state, edges, i)}

FirstOf(indices) == CHOOSE i \in indices : \A j \in indices : i <= j

\* phase_transitions.py:106-122
FindTransitionStateThreshold(state, edges) ==
    LET n == Len(state)
        crossings == Crossings(state, edges)
    IN  IF Cardinality(crossings) >= 5      \* "Require sustained crossing"
        THEN FirstOf(crossings)
        ELSE IF Cardinality(crossings) > 0
        THEN FirstOf(crossings)
        ELSE n \div 2

SustainCount == 5     \* len(crossings) >= 5

\* Arrays over 0 .. MaxValue of lengths MinThresholdLen .. MaxThresholdLen.
MinThresholdLen == 10
MaxThresholdLen == 11

StateThresholdInit ==
    /\ fti_state \in UNION {[1 .. n -> 0 .. MaxValue] : n \in MinThresholdLen .. MaxThresholdLen}
    /\ fti_edges \in 0 .. DefaultEdges
    /\ fti_out = NotCalled

\* find_transition_index(state, method="state_threshold", exclude_edges=e)
CallStateThreshold ==
    /\ fti_out = NotCalled
    /\ fti_out' = FindTransitionStateThreshold(fti_state, fti_edges)
    /\ UNCHANGED <<fti_state, fti_edges>>
    /\ UNCHANGED not_fvars

StateThresholdNext == CallStateThreshold

InitStateThreshold ==
    StateThresholdInit /\ HarnessIdle /\ EnsembleIdle /\ SimulatorIdle /\ DetectorIdle /\ CallIdle

SpecStateThreshold == InitStateThreshold /\ [][StateThresholdNext]_vars

\* C21: the state_threshold method reports a crossing only for a sustained
\* departure: with at least 5 exceeding samples in the central region it
\* returns the first of them, and with fewer (an isolated excursion) it
\* returns the fallback n // 2.
C21_SustainedDepartureOnly ==
    fti_out # NotCalled =>
        LET crossings == Crossings(fti_state, fti_edges)
        IN  IF Cardinality(crossings) >= SustainCount
            THEN fti_out = FirstOf(crossings)
            ELSE fti_out = Len(fti_state) \div 2

(***************************************************************************)
(* find_transition_index, method "variance_peak"                           *)
(* (phase_transitions.py:95-104), called with a window and exclude_edges.  *)
(***************************************************************************)
MaxPeakLen == 8       \* every array over 0 .. MaxValue up to this length
MaxPeakWindow == 3    \* windows 2 .. MaxPeakWindow on those arrays
MaxPeakEdges == 2     \* exclude_edges from 0.0 to MaxPeakEdges / 10

VariancePeakInit ==
    /\ \/ call_args \in [state : UNION {[1 .. n -> 0 .. MaxValue] : n \in 1 .. MaxPeakLen},
                         window : 2 .. MaxPeakWindow,
                         exclude_edges : 0 .. MaxPeakEdges]
       \/ call_args \in [state : LongArrays,
                         window : {TransitionWindow},
                         exclude_edges : {DefaultEdges}]
    /\ call_out = NoCall

\* find_transition_index(state, method="variance_peak", window=w, exclude_edges=e)
CallVariancePeak ==
    /\ ~call_out.called
    /\ call_out' = [called |-> TRUE,
                    value |-> FindTransitionVariancePeak(call_args.state,
                                                         call_args.window,
                                                         call_args.exclude_edges)]
    /\ UNCHANGED call_args
    /\ UNCHANGED not_cvars

VariancePeakNext == CallVariancePeak

InitVariancePeak ==
    VariancePeakInit /\ HarnessIdle /\ EnsembleIdle /\ FindTransitionIdle
        /\ SimulatorIdle /\ DetectorIdle

SpecVariancePeak == InitVariancePeak /\ [][VariancePeakNext]_vars

\* the rolling variance of the array of the call
PeakVariance == ComputeVarianceTrajectory(call_args.state, call_args.window)

\* the central-region indices at which the rolling variance is defined
DefinedInRegion ==
    LET n == Len(call_args.state)
    IN  {i \in EdgeStart(n, call_args.exclude_edges)
                 .. Min(EdgeEnd(n, call_args.exclude_edges), n) - 1 :
            PeakVariance[i + 1] # NaN}

\* C22: the variance_peak method returns an index of the central region at
\* which the rolling variance is defined and maximal over the region, or
\* n // 2 when the region holds no defined variance; it never returns an
\* index of an excluded edge, also when the variance is zero throughout.
C22_PeakInsideRegion ==
    call_out.called =>
        IF DefinedInRegion = {}
        THEN call_out.value = Len(call_args.state) \div 2
        ELSE /\ call_out.value \in DefinedInRegion
             /\ \A i \in DefinedInRegion :
                    PeakVariance[i + 1] <= PeakVariance[call_out.value + 1]

(***************************************************************************)
(* The integration loop of simulate_commitment                             *)
(* (phase_transitions.py:371-386), one pass per step.  call_out holds the  *)
(* loop index, the sample <<x[i], commitment[i]>> and what pass i used:    *)
(* its noise multiplier and whether its drift was the one toward 1.        *)
(***************************************************************************)
CommitmentDuration == 520    \* long enough for the commitment to reach 1

CommitmentConfigs ==
    [transition_type : {"commitment"},
     duration : {LongDuration, CommitmentDuration},
     noise_level : NoiseLevels, transition_fraction : Fractions,
     seed : 0 .. MaxSeed]

\* lines 360-369: the state before the first pass
CommitmentInit ==
    /\ call_args \in CommitmentConfigs
    /\ call_out = [called |-> FALSE, i |-> 0,
                   sample |-> InitialSample(call_args, RngSeed(call_args.seed)),
                   noise_factor |-> Scale, toward_one |-> FALSE]

\* one pass of "for i in range(1, n)"
CommitmentStep ==
    /\ call_out.i + 1 < call_args.duration
    /\ LET i == call_out.i + 1
           sample == Step(call_args, call_out.sample, i, RngSeed(call_args.seed))
       IN  call_out' = [called |-> TRUE, i |-> i, sample |-> sample,
                        noise_factor |-> NoiseFactor(call_args.duration, sample[2]),
                        toward_one |-> Committed(call_args.duration, sample[2])]
    /\ UNCHANGED call_args
    /\ UNCHANGED not_cvars

CommitmentNext == CommitmentStep

InitCommitment ==
    CommitmentInit /\ HarnessIdle /\ EnsembleIdle /\ FindTransitionIdle
        /\ SimulatorIdle /\ DetectorIdle

SpecCommitment == InitCommitment /\ [][CommitmentNext]_vars

\* the commitment level of the current sample, times Scale * n
Commitment == call_out.sample[2]

\* C24: in simulate_commitment the commitment level starts at 0, never
\* decreases from one step to the next and never exceeds 1; once a step
\* uses the drift toward 1, no later step uses the mean-reverting drift;
\* the noise multiplier stays within [0.15, 1] and never increases.
C24_CommitmentMonotone ==
    /\ [](/\ call_out.i = 0 => Commitment = 0
          /\ 0 <= Commitment /\ Commitment <= Scale * call_args.duration
          /\ 150 <= call_out.noise_factor /\ call_out.noise_factor <= Scale)
    /\ [][/\ Commitment' >= Commitment
          /\ call_out.toward_one => call_out'.toward_one
          /\ call_out'.noise_factor <= call_out.noise_factor]_vars

\* C24 witness: a late step of a long run: the commitment has reached 1,
\* the drift is the one toward 1 and the noise multiplier is 0.15.
C24_Witness ==
    /\ call_out.called
    /\ call_out.i = call_args.duration - 1
    /\ Commitment = Scale * call_args.duration
    /\ call_out.toward_one
    /\ call_out.noise_factor = 150

(***************************************************************************)
(* run_ablation_study (harness.py:300-364): one pass of its loop per grid  *)
(* point.  A parameter dictionary is the record of its "window" entry,     *)
(* None when the key is absent.  A run is recorded as the configuration    *)
(* the harness was built from and the detectors it constructed.            *)
(***************************************************************************)
MaxGrid == 2                      \* len(ablation_values)
GridValues == {20, 60}
AblationTypes == {"variance_ratio", "cusum", "ensemble"}
AblationVariables == {"noise_levels", "window", "duration", "n_simulations"}

\* create_detector(detector_type, **params), nucleation_detectors.py:694-705
CreateDetectorKwargs(detector_type, params) ==
    LET window == IF params.window # None THEN params.window ELSE DefaultWindow
    IN  CASE detector_type = "variance_ratio" -> VarianceRatioDetector(window)
          [] detector_type = "variance_derivative" -> VarianceDerivativeDetector(window)
          [] detector_type = "variance_inflection" -> VarianceInflectionDetector(window)
          [] detector_type = "rolling_zscore" -> RollingZScoreDetector(window)
          [] detector_type = "cusum" -> CUSUMDetector(window)
          [] detector_type = "change_point" -> ChangePointDetector(window)
          [] detector_type = "ensemble"
                -> EnsembleDetector(window, [num |-> 2, den |-> 5])

\* EvaluationHarness.__init__ (142-149): config.detector_params.get(dtype, {})
HarnessDetectors(config) ==
    [dtype \in config.detector_types |->
        CreateDetectorKwargs(dtype,
            IF dtype \in DOMAIN config.detector_params
            THEN config.detector_params[dtype]
            ELSE [window |-> None])]

\* harness.py:336-355, the config of grid point i (from 0)
AblationConfig(base, variable, value, i) ==
    [detector_types |-> base.detector_types,
     detector_params |->
        IF variable = "window"
        THEN [dtype \in DOMAIN base.detector_params |-> [window |-> value]]
        ELSE base.detector_params,
     noise_levels |-> IF variable = "noise_levels" THEN <<value>> ELSE base.noise_levels,
     durations |-> IF variable = "duration" THEN <<value, value + 1>> ELSE base.durations,
     seed |-> base.seed + i]

BaseConfigs ==
    UNION {[detector_types : {types},
            detector_params : UNION {[keys -> [window : {None, TransitionWindow}]] :
                                         keys \in SUBSET AblationTypes},
            noise_levels : {DatasetNoiseLevels},
            durations : {<<MinDatasetDuration, MaxDatasetDuration>>},
            seed : 0 .. MaxSeed] : types \in SUBSET AblationTypes \ {{}}}

AblationInit ==
    /\ call_args \in [base_config : BaseConfigs,
                      ablation_variable : AblationVariables,
                      ablation_values : UNION {[1 .. n -> GridValues] : n \in 1 .. MaxGrid}]
    /\ call_out = [called |-> FALSE, raised |-> FALSE, results |-> <<>>]

\* one pass of "for i, value in enumerate(ablation_values)"
AblationRun ==
    /\ ~call_out.raised
    /\ Len(call_out.results) < Len(call_args.ablation_values)
    /\ LET i == Len(call_out.results)
           value == call_args.ablation_values[i + 1]
           config == AblationConfig(call_args.base_config,
                                    call_args.ablation_variable, value, i)
       IN  IF call_args.ablation_variable \notin {"noise_levels", "window", "duration"}
           THEN call_out' = [called |-> TRUE, raised |-> TRUE,    \* ValueError
                             results |-> call_out.results]
           ELSE call_out' = [called |-> TRUE, raised |-> FALSE,
                             results |-> Append(call_out.results,
                                            [config |-> config,
                                             detectors |-> HarnessDetectors(config)])]
    /\ UNCHANGED call_args
    /\ UNCHANGED not_cvars

AblationNext == AblationRun

InitAblation ==
    AblationInit /\ HarnessIdle /\ EnsembleIdle /\ FindTransitionIdle
        /\ SimulatorIdle /\ DetectorIdle

SpecAblation == InitAblation /\ [][AblationNext]_vars

\* C26: grid point i runs a harness with seed base_config.seed + i and with
\* the ablated parameter set to the grid value; for the variable "window"
\* every detector of detector_types is constructed with window equal to
\* the grid value, whether or not detector_params has an entry for it.
C26_AblationAppliesGridValue ==
    \A k \in 1 .. Len(call_out.results) :
        LET run == call_out.results[k]
            value == call_args.ablation_values[k]
        IN  /\ run.config.seed = call_args.base_config.seed + (k - 1)
            /\ call_args.ablation_variable = "noise_levels"
                 => run.config.noise_levels = <<value>>
            /\ call_args.ablation_variable = "duration"
                 => run.config.durations = <<value, value + 1>>
            /\ call_args.ablation_variable = "window"
                 => \A dtype \in call_args.base_config.detector_types :
                        run.detectors[dtype].window = value

(***************************************************************************)
(* The three detectors that report the peak of a trace over the central    *)
(* region (BaseDetector.find_peak, nucleation_detectors.py:113-137), on    *)
(* signals whose central region holds few or many defined trace values.    *)
(***************************************************************************)
PeakDetectors ==
    {VarianceDerivativeDetector(DefaultWindow),
     VarianceInflectionDetector(DefaultWindow),
     ChangePointDetector(DefaultWindow)}

\* 78 samples leave one defined derivative in the central region, 79 two
PeakLengths == {78, 79, 3 * DefaultWindow - 1}

PeakSignals ==
    {StepSignal(n, b, p[1], p[2]) :
        n \in PeakLengths, b \in {DefaultWindow, 50},
        p \in {<<0, 2>>, <<2, 0>>, <<4, 2>>, <<2, 2>>}}
      \cup {StepSignal(LongSignal, LongSignal \div 2, p[1], p[2]) :
              p \in {<<2, 4>>, <<8, 2>>, <<0, 2>>, <<2, 2>>}}

PeakInit ==
    /\ det_detector \in PeakDetectors
    /\ det_signal \in PeakSignals
    /\ det_out = NoCall

PeakNext == CallDetect

InitPeak ==
    PeakInit /\ HarnessIdle /\ EnsembleIdle /\ FindTransitionIdle /\ SimulatorIdle /\ CallIdle

SpecPeak == InitPeak /\ [][PeakNext]_vars

\* the trace the detector of the call takes the peak of, as the fractions
\* num[i] / den[i], with valid[i] = 0 where the trace is NaN
PeakTrace ==
    LET d == det_detector
        raw == ComputeRollingVariance(det_signal, d.window)
        n == Len(det_signal)
    IN  CASE d.type = "variance_derivative" ->
               LET abs_deriv == AbsDerivative(raw, d)
                   num == Array([k \in 1 .. n |-> abs_deriv[k].num])
               IN  [valid |-> ValidFlags(num), num |-> num,
                    den |-> Array([k \in 1 .. n |-> abs_deriv[k].den])]
          [] d.type = "variance_inflection" ->
               [valid |-> Ones(n), num |-> InflectionSignal(raw, d), den |-> Ones(n)]
          [] d.type = "change_point" ->
               [valid |-> Ones(n),
                num |-> IF Len(ValidData(raw, 1, n)) < 2 * d.min_segment
                        THEN Array([k \in 1 .. n |-> 0])
                        ELSE LogLikelihoodRatio(FixedPoint(raw, d.window), d),
                den |-> Ones(n)]

\* the indices of the central region at which the trace is defined
PeakRegion(trace) ==
    LET n == Len(trace.num)
    IN  {i \in (n * 15) \div 100 .. ((n * 85) \div 100) - 1 : At(trace.valid, i) = 1}

\* trace[i] <= trace[j]
TraceLeq(trace, i, j) ==
    At(trace.num, i) * At(trace.den, j) <= At(trace.num, j) * At(trace.den, i)

\* the indices of the central region at which the defined trace value
\* exceeds the threshold rule of the detector of the call
\* (lines 252, 326-331 and 551)
ExceedingRule(trace) ==
    LET d == det_detector
        t == d.threshold
        region == PeakRegion(trace)
    IN  CASE d.type = "variance_derivative" ->
               {i \in region : At(trace.num, i) * t.den > t.num * At(trace.den, i)}
          [] d.type = "variance_inflection" ->
               LET normalised == Normalised(trace.num)
                   typical == StdOf(normalised, 1, Len(normalised))
               IN  IF Spread(trace.num, 1, Len(trace.num))
                   THEN {i \in region : At(normalised, i) * t.den > t.num * typical}
                   ELSE {}
          [] d.type = "change_point" ->
               {i \in region : At(trace.num, i) * t.den > t.num * Scale}

\* C27: when one of the three peak detectors reports detected = True on a
\* signal of length n, detection_index lies in int(0.15 n) .. int(0.85 n) - 1,
\* the trace is defined there and no index of the central region has a
\* larger trace value; conversely, if some defined trace value of the
\* central region exceeds the threshold rule, the detector fires.
C27_PeakOfCentralRegion ==
    (det_out.called /\ ~det_out.result.raised) =>
        LET trace == PeakTrace
            region == PeakRegion(trace)
        IN  /\ det_out.result.detected =>
                  /\ det_out.result.detection_index \in region
                  /\ \A j \in region : TraceLeq(trace, j, det_out.result.detection_index)
            /\ ExceedingRule(trace) # {} => det_out.result.detected

(***************************************************************************)
(* simulate called on two configs that differ only in                      *)
(* transition_fraction, each call with the global generator in a state of  *)
(* its own.                                                                *)
(***************************************************************************)
FractionInit ==
    /\ call_args \in [config : SimulationConfigs, other_fraction : Fractions,
                      ambient : 0 .. RngMod - 1, other_ambient : 0 .. RngMod - 1]
    /\ call_args.other_fraction # call_args.config.transition_fraction
    /\ call_out = NoCall

\* simulate(config) and simulate(replace(config, transition_fraction=f))
CallSimulateBoth ==
    /\ ~call_out.called
    /\ LET other == [call_args.config EXCEPT
                        !.transition_fraction = call_args.other_fraction]
       IN  call_out' = [called |-> TRUE,
                        first |-> Simulate(call_args.config, call_args.ambient).result,
                        second |-> Simulate(other, call_args.other_ambient).result]
    /\ UNCHANGED call_args
    /\ UNCHANGED not_cvars

FractionNext == CallSimulateBoth

InitFraction ==
    FractionInit /\ HarnessIdle /\ EnsembleIdle /\ FindTransitionIdle
        /\ SimulatorIdle /\ DetectorIdle

SpecFraction == InitFraction /\ [][FractionNext]_vars

\* both calls start from the same generator state: the configs carry a
\* seed, or the ambient states are equal
SameDraws ==
    call_args.config.seed # None \/ call_args.ambient = call_args.other_ambient

\* C29: for every archetype other than nucleation, two configs that differ
\* only in transition_fraction (same seed and other fields) yield the same
\* state, control_param and transition_index.
C29_FractionOnlyInNucleation ==
    (/\ call_out.called
     /\ call_args.config.transition_type # "nucleation"
     /\ SameDraws)
        => /\ call_out.first.state = call_out.second.state
           /\ call_out.first.control_param = call_out.second.control_param
           /\ call_out.first.transition_index = call_out.second.transition_index

\* C29 witness: two seeded commitment runs long enough for the rolling
\* windows, with targets int(n * 0.4) and int(n * 0.6), started from
\* different generator states.
C29_Witness ==
    /\ call_out.called
    /\ call_args.config.transition_type = "commitment"
    /\ call_args.config.duration = LongDuration
    /\ call_args.config.seed # None
    /\ call_args.ambient # call_args.other_ambient
    /\ TransTarget(call_out.first.config) # TransTarget(call_out.second.config)
    /\ call_out.first.state = call_out.second.state

(***************************************************************************)
(* evaluate_on_real_data over a list of datasets (loaders.py:454-505), one *)
(* pass of "for dataset in datasets" per step.  A dataset is its list of   *)
(* known transitions and the DetectionResult the detector returns on it.   *)
(***************************************************************************)
TransitionCounts == {0, 1, 2}      \* len(dataset.known_transitions)
DatasetCounts == {1, 2}            \* len(datasets)

RealDatasets ==
    [known_transitions : UNION {[1 .. n -> 0 .. MaxIndex] : n \in TransitionCounts},
     detection : DetectionResults]

\* loaders.py:446-452
EmptyResults ==
    [total_transitions |-> 0, detected |-> 0, false_alarms |-> 0,
     detection_errors |-> <<>>, per_dataset |-> <<>>]

\* loaders.py:454-499, one pass of the loop
AddDatasetUnfiltered(results, dataset, tolerance) ==
    LET r == EvaluateDataset(dataset.known_transitions, dataset.detection, tolerance)
    IN  [total_transitions |-> results.total_transitions + r.total_transitions,
         detected |-> results.detected + r.detected,
         false_alarms |-> results.false_alarms + r.false_alarms,
         detection_errors |-> results.detection_errors \o r.detection_errors,
         per_dataset |-> Append(results.per_dataset,
                            [n_transitions |-> r.total_transitions,
                             hits |-> r.hits, misses |-> r.misses])]

AddDataset(results, dataset, tolerance) ==
    IF Len(dataset.known_transitions) = 0 THEN results      \* continue
    ELSE
    LET r == EvaluateDataset(dataset.known_transitions, dataset.detection, tolerance)
    IN  [total_transitions |-> results.total_transitions + r.total_transitions,
         detected |-> results.detected + r.detected,
         false_alarms |-> results.false_alarms + r.false_alarms,
         detection_errors |-> results.detection_errors \o r.detection_errors,
         per_dataset |-> Append(results.per_dataset,
                            [n_transitions |-> r.total_transitions,
                             hits |-> r.hits, misses |-> r.misses])]

RealDataListInit ==
    /\ call_args \in [datasets : UNION {[1 .. n -> RealDatasets] : n \in DatasetCounts},
                      tolerance : 0 .. MaxTol]
    /\ call_out = [called |-> FALSE, next |-> 0, results |-> EmptyResults]

EvaluateNextDataset ==
    /\ call_out.next < Len(call_args.datasets)
    /\ call_out' = [called |-> TRUE, next |-> call_out.next + 1,
                    results |-> AddDataset(call_out.results,
                                           call_args.datasets[call_out.next + 1],
                                           call_args.tolerance)]
    /\ UNCHANGED call_args
    /\ UNCHANGED not_cvars

RealDataListNext == EvaluateNextDataset

InitRealDataList ==
    RealDataListInit /\ HarnessIdle /\ EnsembleIdle /\ FindTransitionIdle
        /\ SimulatorIdle /\ DetectorIdle

SpecRealDataList == InitRealDataList /\ [][RealDataListNext]_vars

\* the datasets processed so far that have known transitions, in order
WithKnownTransitions ==
    SelectSeq(SubSeq(call_args.datasets, 1, call_out.next),
              LAMBDA ds : Len(ds.known_transitions) > 0)

\* the positions of the known transitions within tolerance of the detection
WithinToleranceOf(ds) ==
    {k \in 1 .. Len(ds.known_transitions) :
        Abs(ds.detection.detection_index - ds.known_transitions[k])
            <= call_args.tolerance}

IsHit(ds) ==
    /\ ds.detection.detected
    /\ ds.detection.detection_index # None
    /\ WithinToleranceOf(ds) # {}

\* the error relative to the first known transition, in list order, that
\* lies within tolerance
ErrorToFirstWithin(ds) ==
    LET first == CHOOSE k \in WithinToleranceOf(ds) :
                    \A j \in WithinToleranceOf(ds) : k <= j
    IN  ds.detection.detection_index - ds.known_transitions[first]

\* C30: in evaluate_on_real_data each dataset with known transitions adds
\* at most one hit or one false alarm, never both, and datasets without
\* known transitions add nothing; so detected + false_alarms is at most
\* the number of datasets with known transitions, detected is at most
\* total_transitions, per-dataset misses = n_transitions - hits, and the
\* recorded error of a hit is relative to the first known transition in
\* list order that lies within tolerance.
C30_OneOutcomePerDataset ==
    LET r == call_out.results
        known == WithKnownTransitions
        hits == SelectSeq(known, IsHit)
    IN  /\ Len(r.per_dataset) = Len(known)
        /\ r.detected + r.false_alarms <= Len(known)
        /\ r.detected <= r.total_transitions
        /\ r.detected = Len(hits)
        /\ \A j \in 1 .. Len(known) :
              /\ r.per_dataset[j].n_transitions = Len(known[j].known_transitions)
              /\ r.per_dataset[j].hits = (IF IsHit(known[j]) THEN 1 ELSE 0)
              /\ r.per_dataset[j].misses
                    = r.per_dataset[j].n_transitions - r.per_dataset[j].hits
        /\ Len(r.detection_errors) = Len(hits)
        /\ \A j \in 1 .. Len(hits) : r.detection_errors[j] = ErrorToFirstWithin(hits[j])

\* C30 witness: two datasets were processed; the first has no known
\* transition although the detector fired on it, the second is a hit whose
\* recorded error is to the first transition within tolerance while a
\* later one is nearer.
C30_Witness ==
    /\ call_out.next = 2
    /\ Len(call_args.datasets[1].known_transitions) = 0
    /\ call_args.datasets[1].detection.detected
    /\ call_args.datasets[1].detection.detection_index # None
    /\ IsHit(call_args.datasets[2])
    /\ call_out.results.detection_errors = <<2>>
    /\ \E k \in 1 .. Len(call_args.datasets[2].known_transitions) :
          call_args.datasets[2].known_transitions[k]
              = call_args.datasets[2].detection.detection_index

====
